---- MODULE Spec2Model ----
(***************************************************************************)
(* Import / normalisation / deduplication pipeline of VaultHealth.         *)
(* The model follows app/src/importers/pipeline.ts (importFile,            *)
(* detectFileType, deduplicateSessions, mergeSessions), the vendor parsers *)
(* it dispatches to, and the keyed record store of app/src/db/database.ts. *)
(***************************************************************************)
EXTENDS Integers, Sequences, FiniteSets, TLC

\* ------------------------------------------------------------------------
\* Bounds
\* ------------------------------------------------------------------------
MaxImports == 2      \* importFile calls in one behaviour
MaxRows == 2         \* rows of one imported file

\* ------------------------------------------------------------------------
\* JavaScript values: numbers are naturals, undefined and null are sentinels
\* ------------------------------------------------------------------------
Undefined == -1
NullValue == -2

NaN == -999999

\* IEEE arithmetic and comparison with NaN
NumAdd(a, b) == IF a = NaN \/ b = NaN THEN NaN ELSE a + b
NumSub(a, b) == IF a = NaN \/ b = NaN THEN NaN ELSE a - b
NumLess(a, b) == a # NaN /\ b # NaN /\ a < b
NumEq(a, b) == a # NaN /\ b # NaN /\ a = b

\* (a / b) * 100, cut to an integer
NumPercent(a, b) == IF a = NaN \/ b = NaN THEN NaN ELSE (a * 100) \div b

\* JS truthiness of a number-or-missing value (x && ..., x || y)
Truthy(x) == x # Undefined /\ x # NullValue /\ x # 0 /\ x # NaN

\* b || a: the second operand preferred
OrElseSecond(a, b) == IF Truthy(b) THEN b ELSE a

\* a || b
OrElse(a, b) == IF Truthy(a) THEN a ELSE b

\* a ?? b
Coalesce(a, b) == IF a # Undefined /\ a # NullValue THEN a ELSE b

\* ------------------------------------------------------------------------
\* Sleep sessions
\* ------------------------------------------------------------------------
\* The numeric fields of a SleepSession that scoring, merging and validation read.
NumFields == {"durationSeconds", "deepSeconds", "remSeconds", "lightSeconds",
              "awakeSeconds", "minHeartRate", "avgHeartRate", "avgHrv",
              "avgRespiratoryRate", "avgBedTempC", "avgRoomTempC", "efficiency"}

\* getSessionCompleteness
getSessionCompleteness(session) ==
    (IF session.durationSeconds > 0 THEN 10 ELSE 0)
  + (IF session.deepSeconds > 0 THEN 5 ELSE 0)
  + (IF session.remSeconds > 0 THEN 5 ELSE 0)
  + (IF session.lightSeconds > 0 THEN 5 ELSE 0)
  + (IF session.awakeSeconds > 0 THEN 2 ELSE 0)
  + (IF Truthy(session.minHeartRate) /\ session.minHeartRate > 0 THEN 5 ELSE 0)
  + (IF Truthy(session.avgHrv) /\ session.avgHrv > 0 THEN 5 ELSE 0)
  + (IF Truthy(session.efficiency) /\ session.efficiency > 0
        /\ session.efficiency <= 100 THEN 3 ELSE 0)
  + (IF Truthy(session.avgRespiratoryRate) /\ session.avgRespiratoryRate > 0
        THEN 3 ELSE 0)
  + (IF session.avgBedTempC # Undefined THEN 2 ELSE 0)

\* The base / supplement choice of mergeSessions
MergeBase(existing, incoming) ==
    IF getSessionCompleteness(existing) >= getSessionCompleteness(incoming)
    THEN existing ELSE incoming

MergeSupplement(existing, incoming) ==
    IF getSessionCompleteness(existing) >= getSessionCompleteness(incoming)
    THEN incoming ELSE existing

\* The efficiency rule of mergeSessions
MergeEfficiency(base, supplement) ==
    IF Truthy(base.efficiency) /\ base.efficiency <= 100 THEN base.efficiency
    ELSE IF Truthy(supplement.efficiency) /\ supplement.efficiency <= 100
         THEN supplement.efficiency
    ELSE base.efficiency

\* vendorData of a record that carries no source name. A record without
\* mergedSources has the empty list.
NoVendorData == [source |-> Undefined, mergedSources |-> <<>>]

\* [a, b].filter(Boolean)
FilterBoolean(a, b) ==
    (IF Truthy(a) THEN <<a>> ELSE <<>>) \o (IF Truthy(b) THEN <<b>> ELSE <<>>)

\* The vendorData of mergeSessions: the keys of the supplement, then those
\* of the base, then mergedSources built from the source of the two sides
MergeVendorData(base, supplement) ==
    [source |-> Coalesce(base.vendorData.source, supplement.vendorData.source),
     mergedSources |->
         FilterBoolean(base.vendorData.source, supplement.vendorData.source)]

\* mergeSessions
mergeSessions(existing, incoming) ==
    LET base == MergeBase(existing, incoming)
        supplement == MergeSupplement(existing, incoming)
    IN [base EXCEPT
          !.vendorData = MergeVendorData(base, supplement),
          !.deepSeconds = OrElse(base.deepSeconds, supplement.deepSeconds),
          !.remSeconds = OrElse(base.remSeconds, supplement.remSeconds),
          !.lightSeconds = OrElse(base.lightSeconds, supplement.lightSeconds),
          !.awakeSeconds = OrElse(base.awakeSeconds, supplement.awakeSeconds),
          !.minHeartRate = OrElse(base.minHeartRate, supplement.minHeartRate),
          !.avgHeartRate = OrElse(base.avgHeartRate, supplement.avgHeartRate),
          !.avgHrv = OrElse(base.avgHrv, supplement.avgHrv),
          !.avgRespiratoryRate =
              OrElse(base.avgRespiratoryRate, supplement.avgRespiratoryRate),
          !.avgBedTempC = Coalesce(base.avgBedTempC, supplement.avgBedTempC),
          !.avgRoomTempC = Coalesce(base.avgRoomTempC, supplement.avgRoomTempC),
          !.efficiency = MergeEfficiency(base, supplement)]

\* validateEfficiency: both comparisons are false on NaN
validateEfficiency(efficiency) ==
    IF efficiency = Undefined \/ efficiency = NullValue THEN Undefined
    ELSE IF efficiency = NaN THEN NaN
    ELSE IF efficiency < 0 THEN 0
    ELSE IF efficiency > 100 THEN 100
    ELSE efficiency

\* validateSession (Math.round is the identity on the integers of the model)
validateSession(session) ==
    [session EXCEPT
       !.efficiency = validateEfficiency(session.efficiency),
       !.minHeartRate =
           IF Truthy(session.minHeartRate) THEN session.minHeartRate ELSE Undefined,
       !.avgHeartRate =
           IF Truthy(session.avgHeartRate) THEN session.avgHeartRate ELSE Undefined,
       !.avgHrv = IF Truthy(session.avgHrv) THEN session.avgHrv ELSE Undefined]

\* sessions.map(validateSession)
validateSessions(sessions) ==
    [i \in 1..Len(sessions) |-> validateSession(sessions[i])]

\* ------------------------------------------------------------------------
\* insights/dataQuality.ts
\* ------------------------------------------------------------------------
\* HARD_LIMITS, for the keys that checkSleepSessionQuality uses
HARD_LIMITS ==
    [heartRate |-> [min |-> 25, max |-> 220],
     minHeartRate |-> [min |-> 25, max |-> 120],
     maxHeartRate |-> [min |-> 40, max |-> 220],
     hrv |-> [min |-> 5, max |-> 300],
     respiratoryRate |-> [min |-> 4, max |-> 40],
     sleepDuration |-> [min |-> 30 * 60, max |-> 16 * 60 * 60],
     deepPercent |-> [min |-> 0, max |-> 60],
     remPercent |-> [min |-> 0, max |-> 60],
     bodyTemp |-> [min |-> 15, max |-> 45],
     roomTemp |-> [min |-> -10, max |-> 50]]

\* DEFAULT_MAD_THRESHOLD = 3.5, in tenths
DEFAULT_MAD_THRESHOLD == 35

\* Reading a property of a session: undefined when the object has none
FieldOf(session, field) ==
    IF field \in DOMAIN session THEN session[field] ELSE Undefined

\* A check of the upper limit only
checkHardLimitsAbove(value, field, limitKey) ==
    IF value = Undefined \/ value = NullValue THEN <<>>
    ELSE IF value > HARD_LIMITS[limitKey].max
         THEN <<[field |-> field, violation |-> "above_max"]>>
    ELSE <<>>

\* checkHardLimits: the violation, or nothing
checkHardLimits(value, field, limitKey) ==
    IF value = Undefined \/ value = NullValue THEN <<>>
    ELSE IF value < HARD_LIMITS[limitKey].min
         THEN <<[field |-> field, violation |-> "below_min"]>>
    ELSE IF value > HARD_LIMITS[limitKey].max
         THEN <<[field |-> field, violation |-> "above_max"]>>
    ELSE <<>>

\* The table of checks of checkSleepSessionQuality
QualityChecks ==
    <<[field |-> "minHeartRate", limitKey |-> "minHeartRate", required |-> FALSE],
      [field |-> "avgHeartRate", limitKey |-> "heartRate", required |-> FALSE],
      [field |-> "maxHeartRate", limitKey |-> "maxHeartRate", required |-> FALSE],
      [field |-> "avgHrv", limitKey |-> "hrv", required |-> FALSE],
      [field |-> "avgRespiratoryRate", limitKey |-> "respiratoryRate",
       required |-> FALSE],
      [field |-> "durationSeconds", limitKey |-> "sleepDuration", required |-> TRUE],
      [field |-> "avgBedTempC", limitKey |-> "bodyTemp", required |-> FALSE],
      [field |-> "avgRoomTempC", limitKey |-> "roomTemp", required |-> FALSE]>>

RECURSIVE FieldViolations(_, _)
\* The loop over the checks: the hard-limit violations of the fields
FieldViolations(session, checks) ==
    IF checks = <<>> THEN <<>>
    ELSE checkHardLimits(FieldOf(session, Head(checks).field),
                         Head(checks).field, Head(checks).limitKey)
         \o FieldViolations(session, Tail(checks))

RECURSIVE MissingFields(_, _)
\* The loop over the checks: the required fields without a value
MissingFields(session, checks) ==
    IF checks = <<>> THEN <<>>
    ELSE (IF Head(checks).required
             /\ FieldOf(session, Head(checks).field) \in {Undefined, NullValue}
          THEN <<Head(checks).field>> ELSE <<>>)
         \o MissingFields(session, Tail(checks))

\* The stage percentages: deepPct = deepSeconds / totalSleep * 100 is below
\* 0 when deepSeconds is, and above 60 when 100 * deepSeconds is above
\* 60 * totalSleep
PercentViolation(seconds, totalSleep, field) ==
    IF seconds * 100 < HARD_LIMITS[field].min * totalSleep
    THEN <<[field |-> field, violation |-> "below_min"]>>
    ELSE IF seconds * 100 > HARD_LIMITS[field].max * totalSleep
    THEN <<[field |-> field, violation |-> "above_max"]>>
    ELSE <<>>

StageViolations(session) ==
    LET totalSleep == session.deepSeconds + session.remSeconds + session.lightSeconds
    IN  IF totalSleep > 0
        THEN PercentViolation(session.deepSeconds, totalSleep, "deepPercent")
             \o PercentViolation(session.remSeconds, totalSleep, "remPercent")
        ELSE <<>>

Abs(x) == IF x < 0 THEN -x ELSE x

\* Math.abs(robustZScore(value, med, mad)) > madThreshold, where the score
\* is 0 when mad is 0 and (value - med) / (mad / 0.6745) otherwise; the
\* threshold is in tenths
robustZScoreExceeds(value, med, mad, madThreshold) ==
    IF mad = 0 THEN 0 > madThreshold
    ELSE Abs(value - med) * 6745 > madThreshold * 1000 * mad

\* robustZScore, in ten-thousandths (the quotient is cut to an integer)
robustZScore(value, med, mad) ==
    IF mad = 0 THEN 0 ELSE ((value - med) * 6745) \div mad

\* median of a list of numbers. The samples of the model are multiples of
\* 4, so that the halves taken by median and medianAbsoluteDeviation are
\* integers.
median(values) ==
    IF values = <<>> THEN 0
    ELSE LET sorted == SortSeq(values, <=)
             mid == Len(values) \div 2
         IN  IF Len(values) % 2 # 0 THEN sorted[mid + 1]
             ELSE (sorted[mid] + sorted[mid + 1]) \div 2

\* The deviations taken from 0 instead of the median
medianAbsoluteDeviationFromZero(values) ==
    IF values = <<>> THEN 0
    ELSE median([i \in 1..Len(values) |-> Abs(values[i])])

\* medianAbsoluteDeviation
medianAbsoluteDeviation(values) ==
    IF values = <<>> THEN 0
    ELSE LET med == median(values)
         IN  median([i \in 1..Len(values) |-> Abs(values[i] - med)])

metricsToCheck == <<"avgHrv", "minHeartRate", "avgRespiratoryRate", "durationSeconds">>

RECURSIVE OutlierFields(_, _, _, _)
\* The loop over metricsToCheck (a null value counts as 0 in arithmetic)
OutlierFields(session, map, madThreshold, fields) ==
    IF fields = <<>> THEN <<>>
    ELSE LET field == Head(fields)
             value == FieldOf(session, field)
         IN  (IF value = Undefined \/ field \notin DOMAIN map THEN <<>>
              ELSE IF robustZScoreExceeds(IF value = NullValue THEN 0 ELSE value,
                                          map[field].median, map[field].mad,
                                          madThreshold)
                   THEN <<field>> ELSE <<>>)
             \o OutlierFields(session, map, madThreshold, Tail(fields))

\* A decision that flags for review from the first outlier on
QualityDecisionFromOne(violations, outliers, isComplete) ==
    IF violations > 0
    THEN [overallQuality |-> "bad", suggestedAction |-> "exclude_from_baseline"]
    ELSE IF outliers >= 1
    THEN [overallQuality |-> "warning", suggestedAction |-> "flag_for_review"]
    ELSE IF ~isComplete
    THEN [overallQuality |-> "warning", suggestedAction |-> "include"]
    ELSE [overallQuality |-> "good", suggestedAction |-> "include"]

\* "Determine overall quality"
QualityDecision(violations, outliers, isComplete) ==
    IF violations > 0
    THEN [overallQuality |-> "bad", suggestedAction |-> "exclude_from_baseline"]
    ELSE IF outliers >= 2
    THEN [overallQuality |-> "warning", suggestedAction |-> "flag_for_review"]
    ELSE IF outliers = 1 \/ ~isComplete
    THEN [overallQuality |-> "warning", suggestedAction |-> "include"]
    ELSE [overallQuality |-> "good", suggestedAction |-> "include"]

\* A baseline argument: passed or not, and the map metric -> {median, mad}
Baseline(passed, map) == [passed |-> passed, map |-> map]

\* checkSleepSessionQuality
checkSleepSessionQuality(session, baseline, madThreshold) ==
    LET hardLimitViolations ==
            FieldViolations(session, QualityChecks) \o StageViolations(session)
        missingFields == MissingFields(session, QualityChecks)
        outlierFields ==
            IF baseline.passed
            THEN OutlierFields(session, baseline.map, madThreshold, metricsToCheck)
            ELSE <<>>
        decision == QualityDecision(Len(hardLimitViolations), Len(outlierFields),
                                    missingFields = <<>>)
    IN  [hardLimitViolations |-> hardLimitViolations,
         outlierFields |-> outlierFields,
         isComplete |-> missingFields = <<>>,
         missingFields |-> missingFields,
         overallQuality |-> decision.overallQuality,
         suggestedAction |-> decision.suggestedAction]

NoMetrics == [m \in {} |-> [median |-> 0, mad |-> 0]]

\* generateDataQualityFlags(report): importFile passes no existingFlags, so
\* manuallyExcluded is existingFlags?.manuallyExcluded ?? false = false
generateDataQualityFlags(report) ==
    [isComplete |-> report.isComplete,
     hasOutliers |-> report.outlierFields # <<>> \/ report.hardLimitViolations # <<>>,
     outlierFields |->
         report.outlierFields
         \o [k \in 1..Len(report.hardLimitViolations) |->
                report.hardLimitViolations[k].field],
     manuallyExcluded |-> FALSE]

\* The report importFile asks for: no baseline, the default threshold
QualityReport(session) ==
    checkSleepSessionQuality(session, Baseline(FALSE, NoMetrics),
                             DEFAULT_MAD_THRESHOLD)

\* The loop over the validated sessions: the flags of every session
FlagSessions(sessions) ==
    [i \in 1..Len(sessions) |->
        [sessions[i] EXCEPT
            !.dataQuality = generateDataQualityFlags(QualityReport(sessions[i]))]]

\* ------------------------------------------------------------------------
\* The record store: a table is a function from primary key (id) to record
\* ------------------------------------------------------------------------
EmptyTable == <<>>

RECURSIVE SortedSeq(_)
SortedSeq(S) ==
    IF S = {} THEN <<>>
    ELSE LET m == CHOOSE x \in S : \A y \in S : x <= y
         IN <<m>> \o SortedSeq(S \ {m})

\* getAll: every record of the table, in key order
getAll(table) ==
    LET keys == SortedSeq(DOMAIN table)
    IN [i \in 1..Len(keys) |-> table[keys[i]]]

\* store.put(record): insert, or replace the record with the same id
put(table, record) ==
    [k \in DOMAIN table \cup {record.id} |->
        IF k = record.id THEN record ELSE table[k]]

\* putMany: the records are put in order inside one transaction
RECURSIVE putMany(_, _)
putMany(table, records) ==
    IF records = <<>> THEN table
    ELSE putMany(put(table, Head(records)), Tail(records))

\* ------------------------------------------------------------------------
\* deduplicateSessions
\* ------------------------------------------------------------------------
\* First loop: the most complete stored session of the user per date
RECURSIVE ExistingByDate(_, _, _)
ExistingByDate(existingSessions, userId, map) ==
    IF existingSessions = <<>> THEN map
    ELSE LET session == Head(existingSessions)
             keep == session.userId = userId
                     /\ (session.date \notin DOMAIN map
                         \/ getSessionCompleteness(session)
                              > getSessionCompleteness(map[session.date]))
             next == IF keep
                     THEN [d \in DOMAIN map \cup {session.date} |->
                             IF d = session.date THEN session ELSE map[d]]
                     ELSE map
         IN ExistingByDate(Tail(existingSessions), userId, next)

\* Second loop: incoming sessions sharing a date are merged pairwise; the
\* list keeps the insertion order of the Map
RECURSIVE IncomingByDate(_, _)
IncomingByDate(sessions, acc) ==
    IF sessions = <<>> THEN acc
    ELSE LET session == Head(sessions)
             hit == {i \in 1..Len(acc) : acc[i].date = session.date}
             next == IF hit # {}
                     THEN LET i == CHOOSE j \in hit : TRUE
                          IN [acc EXCEPT ![i] = mergeSessions(acc[i], session)]
                     ELSE Append(acc, session)
         IN IncomingByDate(Tail(sessions), next)

\* An incoming session appended without looking up the stored one
ReconcileSessionAlwaysNew(session, existingByDate, out) ==
    [out EXCEPT !.sessions = Append(@, session)]

\* The merge taken on an equal score too
ReconcileSessionOnTie(session, existingByDate, out) ==
    IF session.date \in DOMAIN existingByDate
    THEN LET existing == existingByDate[session.date]
         IN IF getSessionCompleteness(session)
                 >= getSessionCompleteness(existing)
            THEN [out EXCEPT
                    !.sessions = Append(@,
                        [mergeSessions(existing, session)
                           EXCEPT !.id = existing.id]),
                    !.mergedCount = @ + 1]
            ELSE [out EXCEPT !.skippedCount = @ + 1]
    ELSE [out EXCEPT !.sessions = Append(@, session)]

\* The merged session left with the id mergeSessions gives it
ReconcileSessionOwnId(session, existingByDate, out) ==
    IF session.date \in DOMAIN existingByDate
    THEN LET existing == existingByDate[session.date]
         IN IF getSessionCompleteness(session)
                 > getSessionCompleteness(existing)
            THEN [out EXCEPT
                    !.sessions = Append(@, mergeSessions(existing, session)),
                    !.mergedCount = @ + 1]
            ELSE [out EXCEPT !.skippedCount = @ + 1]
    ELSE [out EXCEPT !.sessions = Append(@, session)]

\* Body of the third loop: reconcile one incoming date with the stored session
ReconcileSession(session, existingByDate, out) ==
    IF session.date \in DOMAIN existingByDate
    THEN LET existing == existingByDate[session.date]
         IN IF getSessionCompleteness(session)
                 > getSessionCompleteness(existing)
            THEN [out EXCEPT
                    !.sessions = Append(@,
                        [mergeSessions(existing, session)
                           EXCEPT !.id = existing.id]),
                    !.mergedCount = @ + 1]
            ELSE [out EXCEPT !.skippedCount = @ + 1]
    ELSE [out EXCEPT !.sessions = Append(@, session)]

\* Third loop
RECURSIVE Reconcile(_, _, _)
Reconcile(incoming, existingByDate, out) ==
    IF incoming = <<>> THEN out
    ELSE Reconcile(Tail(incoming), existingByDate,
                   ReconcileSession(Head(incoming), existingByDate, out))

\* The incoming sessions reconciled one by one, sessions sharing a date not
\* collapsed first
deduplicateSessionsUncollapsed(sessions, userId, table) ==
    Reconcile(sessions,
              ExistingByDate(getAll(table), userId, <<>>),
              [sessions |-> <<>>, mergedCount |-> 0, skippedCount |-> 0])

deduplicateSessions(sessions, userId, table) ==
    Reconcile(IncomingByDate(sessions, <<>>),
              ExistingByDate(getAll(table), userId, <<>>),
              [sessions |-> <<>>, mergedCount |-> 0, skippedCount |-> 0])

\* ------------------------------------------------------------------------
\* Import files
\* ------------------------------------------------------------------------
\* What detectFileType reads from a file:
\*   json  the content trims to '{' or '[': "none" (it does not), "invalid"
\*         (JSON.parse throws) or the shape of the parsed value
\*   csv   looksLikeCsv(content), header: the vendor tokens of the first line
\*   xml   "none", "apple" (HealthData tokens present) or "other"
\*   zip   binary content starting with the ZIP magic bytes
\*   name  the vendor hint carried by the file name
\* rows is the payload: the records the selected parser iterates over.
File(json, csv, header, xml, zip, name, rows) ==
    [json |-> json, csv |-> csv, header |-> header, xml |-> xml, zip |-> zip,
     name |-> name, rows |-> rows]

\* detectJsonVendor
detectJsonVendor(shape) ==
    IF shape = "eight"
    THEN [fileType |-> "json", suggestedVendor |-> "eight_sleep", confidence |-> "high"]
    ELSE IF shape = "oura"
    THEN [fileType |-> "json", suggestedVendor |-> "oura", confidence |-> "high"]
    ELSE IF shape = "dashboard"
    THEN [fileType |-> "json", suggestedVendor |-> "eight_sleep", confidence |-> "high"]
    ELSE IF shape = "applePre"
    THEN [fileType |-> "json", suggestedVendor |-> "apple_health", confidence |-> "high"]
    ELSE IF shape = "array"
    THEN [fileType |-> "json", suggestedVendor |-> "generic_json", confidence |-> "low"]
    ELSE [fileType |-> "json", suggestedVendor |-> "unknown", confidence |-> "low"]

\* detectCsvVendor
detectCsvVendor(header, name) ==
    IF header = "oura"
    THEN [fileType |-> "csv", suggestedVendor |-> "oura", confidence |-> "medium"]
    ELSE IF header = "splat" \/ name = "otf"
    THEN [fileType |-> "csv", suggestedVendor |-> "orangetheory", confidence |-> "medium"]
    ELSE [fileType |-> "csv", suggestedVendor |-> "generic_csv", confidence |-> "low"]

\* detectFileType
detectFileType(file) ==
    IF file.json \notin {"none", "invalid"} THEN detectJsonVendor(file.json)
    ELSE IF file.csv THEN detectCsvVendor(file.header, file.name)
    ELSE IF file.xml = "apple"
    THEN [fileType |-> "xml", suggestedVendor |-> "apple_health", confidence |-> "high"]
    ELSE IF file.xml = "other"
    THEN [fileType |-> "xml",
          suggestedVendor |-> IF file.name = "apple" THEN "apple_health" ELSE "unknown",
          confidence |-> "low"]
    ELSE IF file.zip
    THEN [fileType |-> "zip", suggestedVendor |-> "unknown", confidence |-> "low"]
    ELSE [fileType |-> "unknown", suggestedVendor |-> "unknown", confidence |-> "low"]

\* getBuiltInProfile: the vendor of the built-in profile, or "none" for null
getBuiltInProfile(vendor) ==
    IF vendor \in {"eight_sleep", "orangetheory", "apple_health"} THEN vendor
    ELSE "none"

\* profile || await getBuiltInProfile(detection.suggestedVendor)
SelectProfile(profile, detection) ==
    IF profile # "none" THEN profile ELSE getBuiltInProfile(detection.suggestedVendor)

\* ------------------------------------------------------------------------
\* Rows of a file and the per-row transforms of the parsers
\* ------------------------------------------------------------------------
Fields(dur, deep, rem, light, awake, minHr, avgHr, hrv, rr, bed, room, eff) ==
    [durationSeconds |-> dur, deepSeconds |-> deep, remSeconds |-> rem,
     lightSeconds |-> light, awakeSeconds |-> awake, minHeartRate |-> minHr,
     avgHeartRate |-> avgHr, avgHrv |-> hrv, avgRespiratoryRate |-> rr,
     avgBedTempC |-> bed, avgRoomTempC |-> room, efficiency |-> eff]

NoFields ==
    Fields(0, 0, 0, 0, 0, Undefined, Undefined, Undefined, Undefined,
           Undefined, Undefined, Undefined)

\* A row: kind "ok" (a well-formed record), "null" (the array element is
\* null), "baddate" (a date string that gives an Invalid Date), "nodate"
\* (no date column value) or "bad" (a value the row transform throws on);
\* id is the id a pre-parsed record carries in the file.
Row(kind, id, date, f) == [kind |-> kind, id |-> id, date |-> date, f |-> f]

\* The DataQualityFlags every parser gives a new record
defaultQualityFlags ==
    [isComplete |-> TRUE, hasOutliers |-> FALSE, outlierFields |-> <<>>,
     manuallyExcluded |-> FALSE]

\* A SleepSession record
Session(id, userId, sourceId, date, f) ==
    [id |-> id, userId |-> userId, sourceId |-> sourceId, date |-> date,
     dataQuality |-> defaultQualityFlags, vendorData |-> NoVendorData,
     durationSeconds |-> f.durationSeconds, deepSeconds |-> f.deepSeconds,
     remSeconds |-> f.remSeconds, lightSeconds |-> f.lightSeconds,
     awakeSeconds |-> f.awakeSeconds, minHeartRate |-> f.minHeartRate,
     avgHeartRate |-> f.avgHeartRate, avgHrv |-> f.avgHrv,
     avgRespiratoryRate |-> f.avgRespiratoryRate, avgBedTempC |-> f.avgBedTempC,
     avgRoomTempC |-> f.avgRoomTempC, efficiency |-> f.efficiency]

\* Outcome of one row: a record was produced ("session", "workout"), the row
\* was dropped ("null"), or the transform threw ("throw")
Produced(tag, rec) == [tag |-> tag, rec |-> rec]
Dropped == [tag |-> "null", rec |-> <<>>]
Threw == [tag |-> "throw", rec |-> <<>>]

\* Less than 3 hours of sleep is dropped by transformRawSession
MinSleepSeconds == 3 * 60 * 60

\* transformRawSession: raw.f carries the summed stage totals and the
\* averaged biometrics of the raw Eight Sleep session
transformRawSession(raw, id, sourceId, userId) ==
    IF raw.kind = "null" THEN Threw
    ELSE LET sleepSeconds == raw.f.lightSeconds + raw.f.deepSeconds + raw.f.remSeconds
             timeInBedSeconds == sleepSeconds + raw.f.awakeSeconds
         IN IF timeInBedSeconds = 0 THEN Dropped
            ELSE IF sleepSeconds < MinSleepSeconds THEN Dropped
            ELSE Produced("session",
                   Session(id, userId, sourceId, raw.date,
                     [raw.f EXCEPT
                        !.durationSeconds = sleepSeconds,
                        !.efficiency = (sleepSeconds * 100) \div timeInBedSeconds]))

\* extractTimeSeries: one series per non-empty raw timeseries (heart rate,
\* HRV, respiratory rate, bed temperature)
TimeSeriesMetrics(raw) ==
    (IF raw.f.avgHeartRate # Undefined THEN <<"heart_rate">> ELSE <<>>)
    \o (IF raw.f.avgHrv # Undefined THEN <<"hrv">> ELSE <<>>)
    \o (IF raw.f.avgRespiratoryRate # Undefined THEN <<"respiratory_rate">> ELSE <<>>)
    \o (IF raw.f.avgBedTempC # Undefined THEN <<"bed_temperature">> ELSE <<>>)

extractTimeSeries(raw, sessionId, sourceId, userId, firstId) ==
    LET metrics == TimeSeriesMetrics(raw)
    IN [k \in 1..Len(metrics) |->
          [id |-> firstId + k - 1, userId |-> userId, sourceId |-> sourceId,
           sessionId |-> sessionId, metricType |-> metrics[k]]]

\* raw.x ?? undefined
NullToUndefined(x) == IF x = NullValue THEN Undefined ELSE x

\* transformDashboardSession: raw.f.durationSeconds is sleepHours * 3600 and
\* the stage seconds are the stage percentages of it
transformDashboardSession(raw, id, sourceId, userId) ==
    IF raw.kind \in {"null", "baddate"} THEN Threw
    ELSE Produced("session",
           Session(id, userId, sourceId, raw.date,
             [raw.f EXCEPT
                !.efficiency =
                    IF raw.f.durationSeconds > 0
                    THEN (raw.f.durationSeconds * 100)
                           \div (raw.f.durationSeconds + raw.f.awakeSeconds)
                    ELSE Undefined,
                !.avgHeartRate = NullToUndefined(raw.f.avgHeartRate),
                !.minHeartRate = NullToUndefined(raw.f.minHeartRate),
                !.avgHrv = NullToUndefined(raw.f.avgHrv),
                !.avgRespiratoryRate = NullToUndefined(raw.f.avgRespiratoryRate),
                !.avgBedTempC = NullToUndefined(raw.f.avgBedTempC),
                !.avgRoomTempC = NullToUndefined(raw.f.avgRoomTempC)]))

\* The catch block of transformDashboardFormat reads raw.date to build its
\* message: on a null row that read throws again and leaves the parser
DashboardCatchThrows(raw) == raw.kind = "null"

\* createSleepSession of the generic transformer: transformRow leaves a null or
\* undefined source value unmapped, and no efficiency is mapped
createSleepSession(raw, id, sourceId, userId) ==
    Session(id, userId, sourceId, raw.date,
      [raw.f EXCEPT
         !.durationSeconds = OrElse(raw.f.durationSeconds, 0),
         !.deepSeconds = OrElse(raw.f.deepSeconds, 0),
         !.remSeconds = OrElse(raw.f.remSeconds, 0),
         !.lightSeconds = OrElse(raw.f.lightSeconds, 0),
         !.awakeSeconds = OrElse(raw.f.awakeSeconds, 0),
         !.avgHeartRate = NullToUndefined(raw.f.avgHeartRate),
         !.minHeartRate = NullToUndefined(raw.f.minHeartRate),
         !.avgHrv = NullToUndefined(raw.f.avgHrv),
         !.avgRespiratoryRate = NullToUndefined(raw.f.avgRespiratoryRate),
         !.avgBedTempC = NullToUndefined(raw.f.avgBedTempC),
         !.avgRoomTempC = NullToUndefined(raw.f.avgRoomTempC),
         !.efficiency = Undefined])

\* The body of the row loop of transformGeneric
transformGenericRow(raw, id, sourceId, userId) ==
    IF raw.kind = "bad" THEN Threw
    ELSE Produced("session", createSleepSession(raw, id, sourceId, userId))

\* A record of a pre-parsed Apple Health JSON keeps the id it has in the
\* file and gets the sourceId of the import and the userId
PreParsedSession(row, sourceId, userId) ==
    Session(row.id, userId, sourceId, row.date, row.f)

\* transformOTFRow: no date gives null, an Invalid Date makes toISOString throw
transformOTFRow(row, id, sourceId, userId) ==
    IF row.kind = "nodate" THEN Dropped
    ELSE IF row.kind = "baddate" THEN Threw
    ELSE Produced("workout",
           [id |-> id, userId |-> userId, sourceId |-> sourceId, date |-> row.date])

\* ------------------------------------------------------------------------
\* Inputs of importFile
\* ------------------------------------------------------------------------
Users == {1, 2}
Dates == {1, 2}

\* Raw Eight Sleep sessions (stage totals in seconds, averaged biometrics)
RawFull == Fields(0, 3600, 3600, 7200, 600, 48, 55, 60, 14, 28, Undefined, Undefined)
RawShort == Fields(0, 0, 0, 3600, 0, Undefined, Undefined, Undefined, Undefined,
                   Undefined, Undefined, Undefined)

\* Dashboard sessions
DashSparse == Fields(25200, 0, 0, 0, 0, NullValue, NullValue, NullValue, NullValue,
                     NullValue, NullValue, Undefined)

\* Sessions of a pre-parsed Apple Health JSON
PreSparse == Fields(21600, 0, 0, 0, 0, Undefined, Undefined, Undefined, Undefined,
                    Undefined, Undefined, Undefined)
PreRich == Fields(27000, 5400, 5400, 16200, 900, 50, 58, 45, 15, 27, 20, 150)
PreStages == Fields(0, 4000, 0, 9000, 0, 0, Undefined, Undefined, Undefined,
                    NullValue, Undefined, 90)

\* A row of a generic CSV with an HRV reading above the hard limit
GenericHot == Fields(21600, 0, 0, 0, 0, Undefined, Undefined, 400, Undefined,
                     Undefined, Undefined, Undefined)

\* Sleep session built by the Apple Health XML parser
XmlThin == Fields(18000, 3000, 3000, 12000, 0, 52, 60, Undefined, Undefined,
                  Undefined, Undefined, Undefined)

RawRows == {Row("ok", Undefined, 1, RawFull), Row("ok", Undefined, 1, RawShort),
            Row("null", Undefined, Undefined, NoFields)}
DashRows == {Row("ok", Undefined, 1, DashSparse),
             Row("baddate", Undefined, Undefined, DashSparse),
             Row("null", Undefined, Undefined, NoFields)}
PreRows == {Row("ok", 101, 1, PreSparse), Row("ok", 102, 1, PreRich),
            Row("ok", 103, 2, PreStages)}
XmlRows == {Row("ok", Undefined, 1, XmlThin), Row("metric", Undefined, 1, NoFields),
            Row("workout", Undefined, 1, NoFields)}
OtfRows == {Row("ok", Undefined, 1, NoFields), Row("nodate", Undefined, Undefined, NoFields),
            Row("baddate", Undefined, Undefined, NoFields)}
GenericRows == {Row("ok", Undefined, 2, PreSparse), Row("ok", Undefined, 2, GenericHot),
                Row("bad", Undefined, Undefined, NoFields)}

\* Every sequence of at most MaxRows rows
Payloads(rows) == UNION {[1..n -> rows] : n \in 0..MaxRows}

\* isEightSleepExport looks at the first session: it must be an object
EightSleepFiles == {File("eight", FALSE, "plain", "none", FALSE, "", r) :
                      r \in {q \in Payloads(RawRows) : q # <<>> /\ q[1].kind # "null"}}
DashboardFiles == {File("dashboard", FALSE, "plain", "none", FALSE, "", r) :
                      r \in Payloads(DashRows)}
PreParsedFiles == {File("applePre", FALSE, "plain", "none", FALSE, "", r) :
                      r \in Payloads(PreRows)}
AppleXmlFiles == {File("none", FALSE, "plain", "apple", FALSE, "", r) :
                      r \in Payloads(XmlRows)}
OtfFiles == {File("none", TRUE, "splat", "none", FALSE, "", r) :
                      r \in Payloads(OtfRows)}
GenericCsvFiles == {File("none", TRUE, "plain", "none", FALSE, "", r) :
                      r \in Payloads(GenericRows)}

\* Files no parser is run on
OtherFiles ==
    {File("none", FALSE, "plain", "none", FALSE, "", <<>>),     \* plain text
     File("invalid", FALSE, "plain", "none", FALSE, "", <<>>),  \* malformed JSON
     File("invalid", TRUE, "plain", "none", FALSE, "", <<>>),   \* malformed JSON, CSV-shaped
     File("oura", FALSE, "plain", "none", FALSE, "", <<>>),     \* Oura JSON export
     File("none", FALSE, "plain", "other", FALSE, "", <<>>),    \* some other XML
     File("none", FALSE, "plain", "none", TRUE, "", <<>>)}      \* ZIP archive

\* importFile(file, userId, profile): the UI passes profile = null ("none");
\* a caller-supplied mapping profile ("generic") selects transformGeneric
Input(file, userId, profile) == [file |-> file, userId |-> userId, profile |-> profile]

Inputs ==
    {Input(f, 1, "none") :
        f \in EightSleepFiles \cup DashboardFiles \cup PreParsedFiles
              \cup AppleXmlFiles \cup OtfFiles \cup OtherFiles}
    \cup {Input(f, 1, "generic") : f \in GenericCsvFiles}
    \cup {Input(f, 2, "none") : f \in {g \in PreParsedFiles : Len(g.rows) = 1}}

\* ------------------------------------------------------------------------
\* State
\* ------------------------------------------------------------------------
VARIABLES
    sources,          \* table 'sources'
    sleepSessions,    \* table 'sleepSessions'
    workoutSessions,  \* table 'workoutSessions'
    dailyMetrics,     \* table 'dailyMetrics'
    timeSeries,       \* table 'timeSeries'
    nextId,           \* generateId(): the next fresh id
    imports,          \* importFile calls started so far
    pc,               \* where the running importFile call is
    run,              \* arguments and locals of the running call
    events,           \* stages passed to onProgress by the running call
    results,          \* ImportResults the running call has returned
    thrown,           \* an exception left importFile (the promise rejected)
    cbThrew,          \* the caller's onProgress threw in the running call
    storeFailed,      \* a store request failed in the running call
    prev              \* the call just before, if it succeeded (its input and
                      \* the number of stored sleep sessions it left) or
                      \* failed on a store request (its input and the
                      \* record counts of the store when it started)

tables == <<sources, sleepSessions, workoutSessions, dailyMetrics, timeSeries>>
vars == <<sources, sleepSessions, workoutSessions, dailyMetrics, timeSeries,
          nextId, imports, pc, run, events, results, thrown, cbThrew,
          storeFailed, prev>>

NoDedup == [sessions |-> <<>>, mergedCount |-> 0, skippedCount |-> 0]

NoRun ==
    [file |-> File("none", FALSE, "plain", "none", FALSE, "", <<>>),
     userId |-> 0, profile |-> "none",
     detection |-> [fileType |-> "unknown", suggestedVendor |-> "unknown",
                    confidence |-> "low"],
     importer |-> "none", path |-> "none", sourceId |-> 0, i |-> 0,
     sleep |-> <<>>, workouts |-> <<>>, series |-> <<>>, metrics |-> <<>>,
     validated |-> <<>>, dedup |-> NoDedup, before |-> EmptyTable,
     warnings |-> <<>>, escaped |-> FALSE,
     start |-> [sleepSessions |-> 0, workoutSessions |-> 0,
                dailyMetrics |-> 0, timeSeries |-> 0]]

NoPrev ==
    [input |-> Input(NoRun.file, 0, "none"), success |-> FALSE, count |-> 0,
     storeFailed |-> FALSE, start |-> NoRun.start]

\* Stores the program is in before a behaviour starts: the empty store, the
\* store left by importing the dashboard file of one sparse night, and the
\* store left by importing the pre-parsed file of one rich night (user 1)
SeedDashboardFile ==
    File("dashboard", FALSE, "plain", "none", FALSE, "", <<Row("ok", Undefined, 1, DashSparse)>>)
SeedPreParsedFile ==
    File("applePre", FALSE, "plain", "none", FALSE, "", <<Row("ok", 102, 1, PreRich)>>)

SeedSource(id, vendor, file) ==
    [id |-> id, userId |-> 1, vendor |-> vendor, fileHash |-> file,
     recordCounts |-> [sleepSessions |-> 1, workoutSessions |-> 0,
                       dailyMetrics |-> 0, timeSeries |-> 0]]

Seeds ==
    {[sources |-> EmptyTable, sleepSessions |-> EmptyTable, nextId |-> 1],
     [sources |-> put(EmptyTable, SeedSource(1, "eight_sleep", SeedDashboardFile)),
      sleepSessions |-> put(EmptyTable,
          validateSession(transformDashboardSession(
              SeedDashboardFile.rows[1], 2, 1, 1).rec)),
      nextId |-> 3],
     [sources |-> put(EmptyTable, SeedSource(1, "apple_health", SeedPreParsedFile)),
      sleepSessions |-> put(EmptyTable,
          validateSession(PreParsedSession(SeedPreParsedFile.rows[1], 1, 1))),
      nextId |-> 2]}

Init ==
    /\ \E seed \in Seeds :
          /\ sources = seed.sources
          /\ sleepSessions = seed.sleepSessions
          /\ nextId = seed.nextId
    /\ workoutSessions = EmptyTable
    /\ dailyMetrics = EmptyTable
    /\ timeSeries = EmptyTable
    /\ imports = 0
    /\ pc = "idle"
    /\ run = NoRun
    /\ events = <<>>
    /\ results = <<>>
    /\ thrown = FALSE
    /\ cbThrew = FALSE
    /\ storeFailed = FALSE
    /\ prev = NoPrev

\* ------------------------------------------------------------------------
\* Results, warnings and errors
\* ------------------------------------------------------------------------
\* An ImportWarning. message names the text of the warning: "already_imported",
\* "merged", "skipped", "sources" (the Apple Health source list), "no_data",
\* "row" (a row that failed to parse), "ranges" (values outside expected
\* ranges)
Warning(type, message, recordIndex) ==
    [type |-> type, message |-> message, recordIndex |-> recordIndex]
Error(type) == [type |-> type]

Counts(sleep, workouts, metrics, series) ==
    [sleepSessions |-> sleep, workoutSessions |-> workouts,
     dailyMetrics |-> metrics, timeSeries |-> series]

\* createErrorResult
createErrorResult(errors) ==
    [success |-> FALSE, sourceId |-> 0, vendor |-> "unknown",
     recordCounts |-> Counts(0, 0, 0, 0), warnings |-> <<>>, errors |-> errors]

\* return <result> from importFile
Return(result) ==
    /\ results' = Append(results, result)
    /\ pc' = "done"
    /\ thrown' = thrown

\* No catch block: the exception of the try body rejects the promise
importFileRethrow ==
    /\ thrown' = TRUE
    /\ pc' = "done"
    /\ results' = results

\* The catch block of importFile: any exception of the try body becomes a
\* storage_error result
importFileCatch ==
    Return(createErrorResult(<<Error("storage_error")>>))

\* report(stage, ...) calls onProgress, which may throw: the reports of one
\* step are made in order and the k-th one throws into the catch block
CallbackThrows(stages) ==
    \E k \in 1..Len(stages) :
        /\ events' = events \o SubSeq(stages, 1, k)
        /\ cbThrew' = TRUE
        /\ importFileCatch
        /\ UNCHANGED <<tables, nextId, imports, run, storeFailed, prev>>

\* A store request (getByIndex, getAll, put, putMany) rejects
StoreFails ==
    /\ storeFailed' = TRUE
    /\ importFileCatch
    /\ UNCHANGED <<tables, nextId, imports, run, events, cbThrew, prev>>

\* The reports of a step whose callback calls all return
Reported(stages) == events' = events \o stages

\* ------------------------------------------------------------------------
\* importFile, step by step
\* ------------------------------------------------------------------------
\* importFile(file, userId, profile, onProgress) is called
StartImport ==
    /\ pc = "idle"
    /\ imports < MaxImports
    /\ \E input \in Inputs :
          run' = [NoRun EXCEPT
                     !.file = input.file, !.userId = input.userId,
                     !.profile = input.profile,
                     !.start = [sleepSessions |-> Cardinality(DOMAIN sleepSessions),
                                workoutSessions |-> Cardinality(DOMAIN workoutSessions),
                                dailyMetrics |-> Cardinality(DOMAIN dailyMetrics),
                                timeSeries |-> Cardinality(DOMAIN timeSeries)]]
    /\ imports' = imports + 1
    /\ pc' = "detecting"
    /\ UNCHANGED <<tables, nextId, events, results, thrown, cbThrew, storeFailed, prev>>

\* Step 1 and 2: report 'detecting', detectFileType, select the profile
Detect ==
    /\ pc = "detecting"
    /\ \/ CallbackThrows(<<"detecting">>)
       \/ /\ Reported(<<"detecting">>)
          /\ LET detection == detectFileType(run.file)
                 importer == SelectProfile(run.profile, detection)
             IN IF detection.fileType = "unknown"
                THEN Return(createErrorResult(<<Error("invalid_format")>>))
                     /\ run' = run
                ELSE IF importer = "none"
                THEN Return(createErrorResult(<<Error("unsupported_vendor")>>))
                     /\ run' = run
                ELSE /\ run' = [run EXCEPT !.detection = detection,
                                           !.importer = importer]
                     /\ pc' = "parsing"
                     /\ UNCHANGED <<results, thrown>>
          /\ UNCHANGED <<tables, nextId, imports, cbThrew, storeFailed, prev>>

\* Step 3: report 'parsing' and parse the content by file type
Parse ==
    /\ pc = "parsing"
    /\ \/ CallbackThrows(<<"parsing">>)
       \/ /\ Reported(<<"parsing">>)
          /\ LET d == run.detection
             IN IF d.fileType = "xml" /\ d.suggestedVendor = "apple_health"
                THEN /\ run' = [run EXCEPT !.path = "xml"]
                     /\ pc' = "xml"
                     /\ UNCHANGED <<results, thrown>>
                ELSE IF d.fileType = "json" /\ run.file.json = "invalid"
                THEN Return(createErrorResult(<<Error("parse_error")>>))
                     /\ run' = run
                ELSE IF d.fileType = "json" /\ d.suggestedVendor = "apple_health"
                        /\ run.file.json = "applePre"
                THEN /\ run' = [run EXCEPT !.path = "pre"]
                     /\ pc' = "pre"
                     /\ UNCHANGED <<results, thrown>>
                ELSE IF d.fileType \in {"json", "csv"}
                THEN /\ run' = [run EXCEPT !.path = "vendor"]
                     /\ pc' = "source"
                     /\ UNCHANGED <<results, thrown>>
                ELSE Return(createErrorResult(<<Error("unsupported_vendor")>>))
                     /\ run' = run
          /\ UNCHANGED <<tables, nextId, imports, cbThrew, storeFailed, prev>>

\* sha256(content): the content itself stands for its hash
sha256(file) == file

\* The records transformData finds to iterate over, per transformer
ParserOf(r) ==
    IF r.importer = "eight_sleep"
    THEN (IF r.file.json = "dashboard" THEN "dashboard" ELSE "raw")
    ELSE IF r.importer = "orangetheory" THEN "otf"
    ELSE "generic"

\* Step 4 and the start of step 5: duplicate-file check, new Source, report
\* 'transforming', and the checks transformData makes before its row loop
CreateSource ==
    /\ pc = "source"
    /\ \/ StoreFails
       \/ CallbackThrows(<<"transforming">>)
       \/ /\ Reported(<<"transforming">>)
          /\ LET existingSources ==
                   {k \in DOMAIN sources : sources[k].fileHash = sha256(run.file)}
                 dup == IF existingSources # {}
                        THEN <<Warning("duplicate", "already_imported", Undefined)>>
                        ELSE <<>>
                 empty == IF run.file.rows = <<>> /\ ParserOf(run) # "dashboard"
                          THEN <<Warning("parse_error", "no_data", Undefined)>>
                          ELSE <<>>
             IN /\ run' = [run EXCEPT !.sourceId = nextId, !.i = 1,
                                      !.warnings = dup \o empty]
                /\ pc' = IF run.file.rows = <<>> THEN "validating" ELSE "rows"
          /\ nextId' = nextId + 1
          /\ UNCHANGED <<tables, imports, results, thrown, cbThrew, storeFailed, prev>>

\* transformRow of the selected parser on one row
RowOutcome(parser, raw, id, sourceId, userId) ==
    IF parser = "raw" THEN transformRawSession(raw, id, sourceId, userId)
    ELSE IF parser = "dashboard" THEN transformDashboardSession(raw, id, sourceId, userId)
    ELSE IF parser = "otf" THEN transformOTFRow(raw, id, sourceId, userId)
    ELSE transformGenericRow(raw, id, sourceId, userId)

\* The catch block of a row loop: a parse_error warning with the row index.
\* The one of transformDashboardFormat throws itself on a null row.
RowCatchThrows(parser, raw) == parser = "dashboard" /\ DashboardCatchThrows(raw)

\* One iteration of the row loop of the parser: progress report, then the
\* row transform inside try / catch
TransformRow ==
    /\ pc = "rows"
    /\ \/ CallbackThrows(<<"transforming">>)
       \/ /\ Reported(<<"transforming">>)
          /\ LET parser == ParserOf(run)
                 raw == run.file.rows[run.i]
                 out == RowOutcome(parser, raw, nextId, run.sourceId, run.userId)
                 series == IF parser = "raw" /\ out.tag = "session"
                           THEN extractTimeSeries(raw, nextId, run.sourceId,
                                                  run.userId, nextId + 1)
                           ELSE <<>>
                 last == run.i = Len(run.file.rows)
             IN IF out.tag = "throw" /\ RowCatchThrows(parser, raw)
                THEN /\ importFileCatch
                     /\ run' = [run EXCEPT !.escaped = TRUE]
                     /\ nextId' = nextId
                ELSE /\ run' = [run EXCEPT
                          !.i = @ + 1,
                          !.sleep = IF out.tag = "session" THEN Append(@, out.rec) ELSE @,
                          !.workouts = IF out.tag = "workout" THEN Append(@, out.rec) ELSE @,
                          !.series = @ \o series,
                          !.warnings = IF out.tag = "throw"
                                       THEN Append(@, Warning("parse_error", "row", run.i - 1))
                                       ELSE @]
                     /\ nextId' = IF out.tag \in {"session", "workout"}
                                  THEN nextId + 1 + Len(series) ELSE nextId
                     /\ pc' = IF last THEN "validating" ELSE "rows"
                     /\ UNCHANGED <<results, thrown>>
          /\ UNCHANGED <<tables, imports, cbThrew, storeFailed, prev>>

RECURSIVE OutlierWarnings(_)
\* The loop over the validated sessions: one 'outlier' warning for every
\* session with a hard-limit violation
OutlierWarnings(sessions) ==
    IF sessions = <<>> THEN <<>>
    ELSE (IF QualityReport(Head(sessions)).hardLimitViolations # <<>>
          THEN <<Warning("outlier", "ranges", Undefined)>> ELSE <<>>)
         \o OutlierWarnings(Tail(sessions))

\* Step 6: report 'validating' (twice), validate the sessions and give
\* each its quality flags
Validate ==
    /\ pc = "validating"
    /\ \/ CallbackThrows(<<"validating", "validating">>)
       \/ /\ Reported(<<"validating", "validating">>)
          /\ LET validatedSessions == validateSessions(run.sleep)
             IN run' = [run EXCEPT
                          !.validated = FlagSessions(validatedSessions),
                          !.warnings = @ \o OutlierWarnings(validatedSessions)]
          /\ pc' = "dedup"
          /\ UNCHANGED <<tables, nextId, imports, results, thrown, cbThrew,
                         storeFailed, prev>>

\* parseAppleHealthXML: body-mass records become daily metrics while the
\* records are scanned; then the Workout elements become workout sessions;
\* then one sleep session is built per date (the first source seen for a
\* date wins); sleep and workout sessions are sorted by date
RECURSIVE XmlMetrics(_, _, _, _)
XmlMetrics(rows, id, sourceId, userId) ==
    IF rows = <<>> THEN <<>>
    ELSE IF Head(rows).kind = "metric"
    THEN <<[id |-> id, userId |-> userId, sourceId |-> sourceId,
            date |-> Head(rows).date]>>
         \o XmlMetrics(Tail(rows), id + 1, sourceId, userId)
    ELSE XmlMetrics(Tail(rows), id, sourceId, userId)

RECURSIVE XmlWorkouts(_, _, _, _)
XmlWorkouts(rows, id, sourceId, userId) ==
    IF rows = <<>> THEN <<>>
    ELSE IF Head(rows).kind = "workout"
    THEN <<[id |-> id, userId |-> userId, sourceId |-> sourceId,
            date |-> Head(rows).date]>>
         \o XmlWorkouts(Tail(rows), id + 1, sourceId, userId)
    ELSE XmlWorkouts(Tail(rows), id, sourceId, userId)

RECURSIVE XmlSessions(_, _, _, _, _)
XmlSessions(rows, id, sourceId, userId, processedDates) ==
    IF rows = <<>> THEN <<>>
    ELSE IF Head(rows).kind = "ok" /\ Head(rows).date \notin processedDates
    THEN <<Session(id, userId, sourceId, Head(rows).date, Head(rows).f)>>
         \o XmlSessions(Tail(rows), id + 1, sourceId, userId,
                        processedDates \cup {Head(rows).date})
    ELSE XmlSessions(Tail(rows), id, sourceId, userId, processedDates)

RECURSIVE SortByDate(_)
SortByDate(sessions) ==
    IF sessions = <<>> THEN <<>>
    ELSE LET i == CHOOSE j \in 1..Len(sessions) :
                    \A k \in 1..Len(sessions) :
                        /\ sessions[j].date <= sessions[k].date
                        /\ (sessions[j].date = sessions[k].date => j <= k)
             rest == [k \in 1..(Len(sessions) - 1) |->
                         IF k < i THEN sessions[k] ELSE sessions[k + 1]]
         IN <<sessions[i]>> \o SortByDate(rest)

parseAppleHealthXML(rows, id, sourceId, userId) ==
    LET metrics == XmlMetrics(rows, id, sourceId, userId)
        workouts == XmlWorkouts(rows, id + Len(metrics), sourceId, userId)
        sessions == XmlSessions(rows, id + Len(metrics) + Len(workouts),
                                sourceId, userId, {})
    IN [sleepSessions |-> SortByDate(sessions),
        workoutSessions |-> SortByDate(workouts),
        dailyMetrics |-> metrics,
        used |-> Len(metrics) + Len(workouts) + Len(sessions)]

\* The Apple Health XML branch up to deduplication: report 'parsing', run
\* parseAppleHealthXML (its five progress calls report 'transforming'),
\* report 'validating', validate the sessions
AppleXml ==
    /\ pc = "xml"
    /\ LET stages == <<"parsing", "transforming", "transforming", "transforming",
                       "transforming", "transforming", "validating">>
       IN \/ CallbackThrows(stages)
          \/ /\ Reported(stages)
             /\ LET appleResult == parseAppleHealthXML(run.file.rows, nextId + 1,
                                                       nextId, run.userId)
                IN /\ run' = [run EXCEPT
                        !.sourceId = nextId,
                        !.sleep = appleResult.sleepSessions,
                        !.workouts = appleResult.workoutSessions,
                        !.metrics = appleResult.dailyMetrics,
                        !.validated = validateSessions(appleResult.sleepSessions)]
                   /\ nextId' = nextId + 1 + appleResult.used
             /\ pc' = "dedup"
             /\ UNCHANGED <<tables, imports, results, thrown, cbThrew, storeFailed, prev>>

\* The pre-parsed Apple Health JSON branch up to deduplication
ApplePreParsed ==
    /\ pc = "pre"
    /\ \/ CallbackThrows(<<"transforming", "validating">>)
       \/ /\ Reported(<<"transforming", "validating">>)
          /\ LET sessions == [k \in 1..Len(run.file.rows) |->
                                PreParsedSession(run.file.rows[k], nextId, run.userId)]
             IN run' = [run EXCEPT
                          !.sourceId = nextId,
                          !.sleep = sessions,
                          !.validated = validateSessions(sessions)]
          /\ nextId' = nextId + 1
          /\ pc' = "dedup"
          /\ UNCHANGED <<tables, imports, results, thrown, cbThrew, storeFailed, prev>>

\* The warnings deduplication adds on the vendor path
DedupWarnings(dedupResult) ==
    (IF dedupResult.mergedCount > 0
     THEN <<Warning("duplicate", "merged", Undefined)>> ELSE <<>>)
    \o (IF dedupResult.skippedCount > 0
        THEN <<Warning("duplicate", "skipped", Undefined)>> ELSE <<>>)

\* deduplicateSessions against the store, then report 'storing'
Deduplicate ==
    /\ pc = "dedup"
    /\ \/ StoreFails
       \/ CallbackThrows(<<"storing">>)
       \/ /\ Reported(<<"storing">>)
          /\ LET dedupResult ==
                   deduplicateSessions(run.validated, run.userId, sleepSessions)
             IN run' = [run EXCEPT
                          !.dedup = dedupResult,
                          !.before = sleepSessions,
                          !.warnings = IF run.path = "vendor"
                                       THEN @ \o DedupWarnings(dedupResult) ELSE @]
          /\ pc' = "putSource"
          /\ UNCHANGED <<tables, nextId, imports, results, thrown, cbThrew,
                         storeFailed, prev>>

\* The Source record of the import
SourceRecord(r) ==
    [id |-> r.sourceId, userId |-> r.userId,
     vendor |-> IF r.path = "vendor" THEN r.detection.suggestedVendor ELSE "apple_health",
     fileHash |-> sha256(r.file),
     recordCounts |-> Counts(Len(r.dedup.sessions), Len(r.workouts),
                             IF r.path = "vendor" THEN 0 ELSE Len(r.metrics),
                             IF r.path = "vendor" THEN Len(r.series) ELSE 0)]

\* The Source record not written before the records of the import
PutSourceSkipped ==
    /\ pc = "putSource"
    /\ \/ StoreFails
       \/ /\ pc' = "putSleep"
          /\ UNCHANGED <<sources, sleepSessions, workoutSessions, dailyMetrics,
                         timeSeries, nextId, imports, run, events, results,
                         thrown, cbThrew, storeFailed, prev>>

\* await put('sources', source)
PutSource ==
    /\ pc = "putSource"
    /\ \/ StoreFails
       \/ /\ sources' = put(sources, SourceRecord(run))
          /\ pc' = "putSleep"
          /\ UNCHANGED <<sleepSessions, workoutSessions, dailyMetrics, timeSeries,
                         nextId, imports, run, events, results, thrown, cbThrew,
                         storeFailed, prev>>

\* if (dedupResult.sessions.length > 0) await putMany('sleepSessions', ...)
PutSleepSessions ==
    /\ pc = "putSleep"
    /\ \/ run.dedup.sessions # <<>> /\ StoreFails
       \/ /\ sleepSessions' = putMany(sleepSessions, run.dedup.sessions)
          /\ pc' = "putWorkouts"
          /\ UNCHANGED <<sources, workoutSessions, dailyMetrics, timeSeries,
                         nextId, imports, run, events, results, thrown, cbThrew,
                         storeFailed, prev>>

\* if (workoutSessions.length > 0) await putMany('workoutSessions', ...)
PutWorkoutSessions ==
    /\ pc = "putWorkouts"
    /\ \/ run.workouts # <<>> /\ StoreFails
       \/ /\ workoutSessions' = putMany(workoutSessions, run.workouts)
          /\ pc' = "putLast"
          /\ UNCHANGED <<sources, sleepSessions, dailyMetrics, timeSeries,
                         nextId, imports, run, events, results, thrown, cbThrew,
                         storeFailed, prev>>

\* The last write: timeSeries on the vendor path, dailyMetrics on the Apple
\* Health paths
PutLast ==
    /\ pc = "putLast"
    /\ \/ (IF run.path = "vendor" THEN run.series ELSE run.metrics) # <<>> /\ StoreFails
       \/ /\ IF run.path = "vendor"
             THEN /\ timeSeries' = putMany(timeSeries, run.series)
                  /\ dailyMetrics' = dailyMetrics
             ELSE /\ dailyMetrics' = putMany(dailyMetrics, run.metrics)
                  /\ timeSeries' = timeSeries
          /\ pc' = "complete"
          /\ UNCHANGED <<sources, sleepSessions, workoutSessions,
                         nextId, imports, run, events, results, thrown, cbThrew,
                         storeFailed, prev>>

\* The ImportResult of a successful import
SuccessResult(r) ==
    [success |-> TRUE, sourceId |-> r.sourceId,
     vendor |-> SourceRecord(r).vendor,
     recordCounts |-> SourceRecord(r).recordCounts,
     warnings |-> IF r.path = "vendor" THEN r.warnings
                  ELSE <<Warning("duplicate", "sources", Undefined)>>
                       \o DedupWarnings(r.dedup),
     errors |-> <<>>]

\* report 'complete' and return the result
Complete ==
    /\ pc = "complete"
    /\ \/ CallbackThrows(<<"complete">>)
       \/ /\ Reported(<<"complete">>)
          /\ Return(SuccessResult(run))
          /\ UNCHANGED <<tables, nextId, imports, run, cbThrew, storeFailed, prev>>

\* The caller has the outcome; the next call may start
Finish ==
    /\ pc = "done"
    /\ prev' = IF results # <<>> /\ results[Len(results)].success
                THEN [NoPrev EXCEPT
                        !.input = Input(run.file, run.userId, run.profile),
                        !.success = TRUE,
                        !.count = Cardinality(DOMAIN sleepSessions)]
                ELSE IF storeFailed
                THEN [NoPrev EXCEPT
                        !.input = Input(run.file, run.userId, run.profile),
                        !.storeFailed = TRUE,
                        !.start = run.start]
                ELSE NoPrev
    /\ pc' = "idle"
    /\ run' = NoRun
    /\ events' = <<>>
    /\ results' = <<>>
    /\ cbThrew' = FALSE
    /\ storeFailed' = FALSE
    /\ UNCHANGED <<tables, nextId, imports, thrown>>

Next ==
    \/ StartImport
    \/ Detect
    \/ Parse
    \/ CreateSource
    \/ TransformRow
    \/ Validate
    \/ AppleXml
    \/ ApplePreParsed
    \/ Deduplicate
    \/ PutSource
    \/ PutSleepSessions
    \/ PutWorkoutSessions
    \/ PutLast
    \/ Complete
    \/ Finish

Spec == Init /\ [][Next]_vars

\* ------------------------------------------------------------------------
\* The Data Quality page next to the imports: the table of sessions needing
\* review has an Exclude / Include button per session (toggleExclusion).
\* ------------------------------------------------------------------------
\* flaggedSessions of DataQualityPage
NeedsReview(session) ==
    \/ session.dataQuality.hasOutliers
    \/ ~session.dataQuality.isComplete
    \/ session.dataQuality.manuallyExcluded

\* toggleExclusion(session), between two imports
ToggleExclusion ==
    /\ pc = "idle"
    /\ \E id \in DOMAIN sleepSessions :
          /\ NeedsReview(sleepSessions[id])
          /\ sleepSessions' = put(sleepSessions,
                [sleepSessions[id] EXCEPT
                    !.dataQuality.manuallyExcluded = ~@])
    /\ UNCHANGED <<sources, workoutSessions, dailyMetrics, timeSeries, nextId,
                   imports, pc, run, events, results, thrown, cbThrew,
                   storeFailed, prev>>

\* The store left by importing, with a mapping profile, a CSV of one night
\* whose HRV reading is above the hard limit: the session is flagged
SeedGenericFile ==
    File("none", TRUE, "plain", "none", FALSE, "", <<Row("ok", Undefined, 1, GenericHot)>>)

ExclusionInit ==
    /\ sources = put(EmptyTable,
                     SeedSource(1, detectFileType(SeedGenericFile).suggestedVendor,
                                SeedGenericFile))
    /\ sleepSessions = put(EmptyTable,
          FlagSessions(validateSessions(
              <<createSleepSession(SeedGenericFile.rows[1], 2, 1, 1)>>))[1])
    /\ nextId = 3
    /\ workoutSessions = EmptyTable
    /\ dailyMetrics = EmptyTable
    /\ timeSeries = EmptyTable
    /\ imports = MaxImports - 1
    /\ pc = "idle"
    /\ run = NoRun
    /\ events = <<>>
    /\ results = <<>>
    /\ thrown = FALSE
    /\ cbThrew = FALSE
    /\ storeFailed = FALSE
    /\ prev = NoPrev

ExclusionNext == Next \/ ToggleExclusion

ExclusionSpec == ExclusionInit /\ [][ExclusionNext]_vars

\* ------------------------------------------------------------------------
\* mergeSessions on its own: any two validated sessions of one user and date
\* ------------------------------------------------------------------------
\* The sessions one side can be. The values of side 1 and side 2 differ in
\* every field, so the result shows which side a value came from. Stage and
\* heart fields are present or absent together; the respiratory rate,
\* temperatures and efficiency also take the values 0 and null.
MergeInputs(side) ==
    {validateSession(Session(100 + side, 1, side, 1,
        Fields(dur, deep, deep, light, light, hr, hr, hr, rr, temp, temp, eff))) :
        dur \in {0, 25000 + side}, deep \in {0, 3600 + side},
        light \in {0, 9000 + side}, hr \in {Undefined, 50 + side},
        rr \in {Undefined, 0, 14 + side},
        temp \in {Undefined, NullValue, side - 1},
        eff \in {Undefined, 0, 80 + side}}

MergeInit ==
    /\ sources = EmptyTable
    /\ sleepSessions = EmptyTable
    /\ workoutSessions = EmptyTable
    /\ dailyMetrics = EmptyTable
    /\ timeSeries = EmptyTable
    /\ nextId = 1
    /\ imports = 0
    /\ pc = "merge"
    /\ \E existing \in MergeInputs(1), incoming \in MergeInputs(2) :
          run = [existing |-> existing, incoming |-> incoming]
    /\ events = <<>>
    /\ results = <<>>
    /\ thrown = FALSE
    /\ cbThrew = FALSE
    /\ storeFailed = FALSE
    /\ prev = NoPrev

Merge ==
    /\ pc = "merge"
    /\ results' = <<mergeSessions(run.existing, run.incoming)>>
    /\ pc' = "merged"
    /\ UNCHANGED <<tables, nextId, imports, run, events, thrown, cbThrew,
                   storeFailed, prev>>

MergeNext == Merge

MergeSpec == MergeInit /\ [][MergeNext]_vars

\* ------------------------------------------------------------------------
\* The Import page: the route /import mounts ImportPage, whose drop zone
\* starts processFile. A call of processFile goes on when the page is left:
\* the component state (isProcessing) belongs to the mounted instance only.
\*   run.mounted       the mounted ImportPage instance, 0 when another route
\*                     is shown
\*   run.isProcessing  the isProcessing state of the mounted instance
\*   run.calls         the processFile calls made so far: the instance that
\*                     made the call, the file, and where the call is
\* ------------------------------------------------------------------------
MaxMounts == 2

\* What processFile reads from the dropped file
UiFiles ==
    [size : {"ok", "warning", "error"}, readable : BOOLEAN, known : BOOLEAN]

UiInit ==
    /\ sources = EmptyTable
    /\ sleepSessions = EmptyTable
    /\ workoutSessions = EmptyTable
    /\ dailyMetrics = EmptyTable
    /\ timeSeries = EmptyTable
    /\ nextId = 2
    /\ imports = 0
    /\ pc = "ui"
    /\ run = [mounted |-> 1, isProcessing |-> FALSE, calls |-> <<>>]
    /\ events = <<>>
    /\ results = <<>>
    /\ thrown = FALSE
    /\ cbThrew = FALSE
    /\ storeFailed = FALSE
    /\ prev = NoPrev

UiUnchanged ==
    UNCHANGED <<tables, events, results, thrown, cbThrew, storeFailed, prev, pc>>

\* setIsProcessing(false) by the call c: it changes what is rendered only
\* when the instance that made the call is still the mounted one
SetNotProcessing(c) ==
    IF run.calls[c].instance = run.mounted THEN FALSE ELSE run.isProcessing

\* handleDrop / handleFileSelect on the drop zone, which takes no pointer
\* events while isProcessing is rendered: processFile runs up to its first
\* await (setIsProcessing(true), the file size check)
DropFile ==
    /\ run.mounted # 0
    /\ ~run.isProcessing
    /\ imports < MaxImports
    /\ \E file \in UiFiles :
          run' = [run EXCEPT
                    !.isProcessing = file.size # "error",
                    !.calls = Append(@,
                        [instance |-> run.mounted, file |-> file,
                         at |-> IF file.size = "error" THEN "returned"
                                ELSE "reading"])]
    /\ imports' = imports + 1
    /\ nextId' = nextId
    /\ UiUnchanged

\* await readFile(file): a read error goes through catch and finally
FileRead ==
    /\ \E c \in 1..Len(run.calls) :
          /\ run.calls[c].at = "reading"
          /\ IF run.calls[c].file.readable
             THEN run' = [run EXCEPT !.calls[c].at = "detecting"]
             ELSE run' = [run EXCEPT !.calls[c].at = "returned",
                                     !.isProcessing = SetNotProcessing(c)]
    /\ UNCHANGED <<imports, nextId>>
    /\ UiUnchanged

\* await detectFileType(importFile_): unknown ends the call, otherwise
\* importFile is called
FileDetected ==
    /\ \E c \in 1..Len(run.calls) :
          /\ run.calls[c].at = "detecting"
          /\ IF run.calls[c].file.known
             THEN run' = [run EXCEPT !.calls[c].at = "importing"]
             ELSE run' = [run EXCEPT !.calls[c].at = "returned",
                                     !.isProcessing = SetNotProcessing(c)]
    /\ UNCHANGED <<imports, nextId>>
    /\ UiUnchanged

\* importFile has returned: setResult, finally setIsProcessing(false)
ImportReturned ==
    /\ \E c \in 1..Len(run.calls) :
          /\ run.calls[c].at = "importing"
          /\ run' = [run EXCEPT !.calls[c].at = "returned",
                                !.isProcessing = SetNotProcessing(c)]
    /\ UNCHANGED <<imports, nextId>>
    /\ UiUnchanged

\* A navigation link leads to another route: ImportPage is unmounted
LeavePage ==
    /\ run.mounted # 0
    /\ run' = [run EXCEPT !.mounted = 0, !.isProcessing = FALSE]
    /\ UNCHANGED <<imports, nextId>>
    /\ UiUnchanged

\* The route /import is shown again: a new ImportPage instance with
\* useState(false) for isProcessing
EnterPage ==
    /\ run.mounted = 0
    /\ nextId <= MaxMounts
    /\ run' = [run EXCEPT !.mounted = nextId, !.isProcessing = FALSE]
    /\ nextId' = nextId + 1
    /\ imports' = imports
    /\ UiUnchanged

UiNext ==
    \/ DropFile
    \/ FileRead
    \/ FileDetected
    \/ ImportReturned
    \/ LeavePage
    \/ EnterPage

UiSpec == UiInit /\ [][UiNext]_vars

\* ------------------------------------------------------------------------
\* The file-processor worker. Messages are handled one at a time, and a
\* parse gives way to the next message only at the await of
\* decodeBufferChunked (sleep(0) after every chunk).
\*   run.cancelled  the module's flag
\*   run.queue      the messages posted to the worker and not handled yet
\*   run.parses     the processFile calls: where each one is, its buffer,
\*                  and whether a cancel was handled while it was running
\*   events         the responses posted by the worker
\* ------------------------------------------------------------------------
MaxMessages == 3
MaxChunks == 2

\* A buffer: its size against the limits, its number of chunks (a buffer
\* over a limit is not empty), and whether its text parses
Buffers ==
    {b \in [size : {"ok", "soft", "hard"}, chunks : 0..MaxChunks,
            parses : BOOLEAN] : b.size # "ok" => b.chunks >= 1}

WorkerMessages ==
    {[type |-> "cancel"]}
        \cup {[type |-> "parse", file |-> b] : b \in Buffers}

Response(type, message, parse) ==
    [type |-> type, message |-> message, parse |-> parse]

WorkerInit ==
    /\ sources = EmptyTable
    /\ sleepSessions = EmptyTable
    /\ workoutSessions = EmptyTable
    /\ dailyMetrics = EmptyTable
    /\ timeSeries = EmptyTable
    /\ nextId = 1
    /\ imports = 0
    /\ pc = "worker"
    /\ run = [cancelled |-> FALSE, queue |-> <<>>, parses |-> <<>>]
    /\ events = <<>>
    /\ results = <<>>
    /\ thrown = FALSE
    /\ cbThrew = FALSE
    /\ storeFailed = FALSE
    /\ prev = NoPrev

WorkerUnchanged ==
    UNCHANGED <<tables, nextId, results, thrown, cbThrew, storeFailed, prev, pc>>

\* The page posts a message to the worker
PostMessage ==
    /\ imports < MaxMessages
    /\ \E m \in WorkerMessages : run' = [run EXCEPT !.queue = Append(@, m)]
    /\ imports' = imports + 1
    /\ events' = events
    /\ WorkerUnchanged

\* The catch block run after 'complete' was posted
AfterDecodeThenCatch(p, file, cancelled) ==
    IF cancelled
    THEN <<Response("error", "Cancelled by user", p)>>
    ELSE <<Response("progress", "Parsing content...", p)>>
         \o (IF file.parses
             THEN <<Response("progress", "Finalizing...", p),
                    Response("complete", "", p),
                    Response("error", "parse", p)>>
             ELSE <<Response("error", "parse", p)>>)

\* processFile from the return of decodeBufferChunked to its end, for the
\* parse p, as the responses it posts
AfterDecode(p, file, cancelled) ==
    IF cancelled
    THEN <<Response("error", "Cancelled by user", p)>>
    ELSE <<Response("progress", "Parsing content...", p)>>
         \o (IF file.parses
             THEN <<Response("progress", "Finalizing...", p),
                    Response("complete", "", p)>>
             ELSE <<Response("error", "parse", p)>>)

\* processFile from its call to the first sleep(0), or to its end when
\* there is none
BeforeDecode(p, file) ==
    IF file.size = "hard"
    THEN <<Response("error", "File too large", p)>>
    ELSE (IF file.size = "soft"
          THEN <<Response("warning", "Large file detected", p)>>
          ELSE <<>>)
         \o <<Response("progress", "Reading file...", p)>>
         \o (IF file.chunks = 0
             THEN AfterDecode(p, file, FALSE)
             ELSE <<Response("progress", "Reading file... %", p)>>)

Terminal(responses) ==
    \E i \in 1..Len(responses) : responses[i].type \in {"complete", "error"}

\* self.onmessage
OnMessage ==
    /\ run.queue # <<>>
    /\ LET m == Head(run.queue)
           p == Len(run.parses) + 1
       IN  IF m.type = "cancel"
           THEN /\ run' = [run EXCEPT
                     !.cancelled = TRUE,
                     !.queue = Tail(@),
                     !.parses = [q \in DOMAIN @ |->
                         IF @[q].at = "sleeping"
                         THEN [@[q] EXCEPT !.cancelSeen = TRUE]
                         ELSE @[q]]]
                /\ events' = events
           ELSE /\ run' = [run EXCEPT
                     !.cancelled = FALSE,
                     !.queue = Tail(@),
                     !.parses = Append(@,
                         [file |-> m.file, i |-> 0, cancelSeen |-> FALSE,
                          at |-> IF Terminal(BeforeDecode(p, m.file))
                                 THEN "returned" ELSE "sleeping"])]
                /\ events' = events \o BeforeDecode(p, m.file)
    /\ imports' = imports
    /\ WorkerUnchanged

\* The timer of sleep(0) fires for the parse p: the loop of
\* decodeBufferChunked goes on, and after the last chunk processFile does
Resume ==
    /\ \E p \in 1..Len(run.parses) :
          LET c == run.parses[p]
          IN  /\ c.at = "sleeping"
              /\ IF c.i + 1 < c.file.chunks
                 THEN IF run.cancelled
                      THEN /\ run' = [run EXCEPT !.parses[p].at = "returned"]
                           /\ events' = Append(events,
                                  Response("error", "Cancelled", p))
                      ELSE /\ run' = [run EXCEPT !.parses[p].i = c.i + 1]
                           /\ events' = Append(events,
                                  Response("progress", "Reading file... %", p))
                 ELSE /\ run' = [run EXCEPT !.parses[p].at = "returned"]
                      /\ events' = events \o AfterDecode(p, c.file, run.cancelled)
    /\ imports' = imports
    /\ WorkerUnchanged

WorkerNext ==
    \/ PostMessage
    \/ OnMessage
    \/ Resume

WorkerSpec == WorkerInit /\ [][WorkerNext]_vars

\* The event loop of the worker runs every queued message and every timer
WorkerFairSpec == WorkerSpec /\ WF_vars(OnMessage) /\ WF_vars(Resume)

\* ------------------------------------------------------------------------
\* The streaming Apple Health import (scripts/importAppleHealthStream.ts,
\* main): the export is read in chunks, the buffer is scanned for complete
\* Record and Workout elements after every chunk, and a tail is kept.
\* A document is a sequence of elements, each a run of characters; a Record
\* or Workout pattern matches an element that lies wholly in the buffer.
\* Lengths are scaled: TailMargin stands for the 50000 characters of the
\* source and MaxChunkLen for the stream's highWaterMark.
\*   run.doc     the document
\*   run.read    the characters read from the stream so far
\*   run.from    the document offset of the first character of the buffer
\*   run.chunk   the length of the chunk read last
\*   run.peak    the length of the buffer after the last chunk was appended
\*   events      the elements handed to processRecord / processWorkout
\* ------------------------------------------------------------------------
MaxElems == 3
MaxElemLen == 3
MaxChunkLen == 2
TailMargin == 1

Max(a, b) == IF a >= b THEN a ELSE b

Elements == [kind : {"Record", "Workout", "Other"}, len : 1..MaxElemLen]

Documents == UNION {[1..n -> Elements] : n \in 1..MaxElems}

RECURSIVE ElemStart(_, _)
\* The offset of the first character of the element i
ElemStart(doc, i) ==
    IF i = 1 THEN 0 ELSE ElemStart(doc, i - 1) + doc[i - 1].len

ElemEnd(doc, i) == ElemStart(doc, i) + doc[i].len

DocLen(doc) == ElemEnd(doc, Len(doc))

\* regex.exec over the buffer [from, to): the elements of the kind that lie
\* wholly in the buffer, in document order
Matches(doc, kind, from, to) ==
    SelectSeq([i \in 1..Len(doc) |-> i],
              LAMBDA i : /\ doc[i].kind = kind
                         /\ ElemStart(doc, i) >= from
                         /\ ElemEnd(doc, i) <= to)

\* lastMatchEnd, as an offset into the buffer: 0 when nothing matched
LastMatchEnd(doc, from, to) ==
    LET ms == Matches(doc, "Record", from, to) \o Matches(doc, "Workout", from, to)
        ends == {ElemEnd(doc, ms[k]) - from : k \in 1..Len(ms)}
    IN  IF ends = {} THEN 0 ELSE CHOOSE e \in ends : \A f \in ends : f <= e

\* The tail kept by a scan that trusts the last match only
safePointLastMatch(lastMatchEnd, length) == lastMatchEnd

\* const safePoint = Math.max(lastMatchEnd, buffer.length - 50000)
safePoint(lastMatchEnd, length) == Max(lastMatchEnd, length - TailMargin)

StreamInit ==
    /\ sources = EmptyTable
    /\ sleepSessions = EmptyTable
    /\ workoutSessions = EmptyTable
    /\ dailyMetrics = EmptyTable
    /\ timeSeries = EmptyTable
    /\ nextId = 1
    /\ imports = 0
    /\ pc = "stream"
    /\ \E doc \in Documents :
          run = [doc |-> doc, read |-> 0, from |-> 0, chunk |-> 0, peak |-> 0]
    /\ events = <<>>
    /\ results = <<>>
    /\ thrown = FALSE
    /\ cbThrew = FALSE
    /\ storeFailed = FALSE
    /\ prev = NoPrev

StreamUnchanged ==
    UNCHANGED <<tables, nextId, results, thrown, cbThrew, storeFailed, prev>>

\* One turn of the loop over the stream: the chunk is appended, the
\* complete Records and then the complete Workouts are processed, and the
\* buffer is cut at safePoint
ReadChunk ==
    /\ pc = "stream"
    /\ run.read < DocLen(run.doc)
    /\ \E n \in 1..MaxChunkLen :
          /\ run.read + n <= DocLen(run.doc)
          /\ LET to == run.read + n
                 length == to - run.from
             IN  /\ events' = events \o Matches(run.doc, "Record", run.from, to)
                                     \o Matches(run.doc, "Workout", run.from, to)
                 /\ run' = [run EXCEPT
                       !.read = to,
                       !.chunk = n,
                       !.peak = length,
                       !.from = @ + safePoint(LastMatchEnd(run.doc, run.from, to),
                                              length)]
    /\ imports' = imports + 1
    /\ pc' = pc
    /\ StreamUnchanged

\* The stream has ended: the elements still complete in the buffer are
\* processed
EndOfStream ==
    /\ pc = "stream"
    /\ run.read = DocLen(run.doc)
    /\ events' = events \o Matches(run.doc, "Record", run.from, run.read)
                        \o Matches(run.doc, "Workout", run.from, run.read)
    /\ pc' = "ended"
    /\ run' = run
    /\ imports' = imports
    /\ StreamUnchanged

StreamNext ==
    \/ ReadChunk
    \/ EndOfStream

StreamSpec == StreamInit /\ [][StreamNext]_vars

\* ------------------------------------------------------------------------
\* checkSleepSessionQuality applied to one session and one baseline
\*   run.session, run.baseline   the arguments
\*   results                     the report
\* ------------------------------------------------------------------------
QualityStages == {<<0, 0, 0>>, <<5400, 5400, 18000>>, <<20000, 1000, 1000>>}

QualitySessions ==
    {Session(1, 1, 1, 1,
             Fields(dur, st[1], st[2], st[3], 0, minHr, avgHr, hrv, rr, bed, room,
                    Undefined))
        @@ [maxHeartRate |-> maxHr] :
        dur \in {Undefined, 1000, 28800, 50000},
        st \in QualityStages,
        minHr \in {Undefined, 20, 50},
        avgHr \in {Undefined, 60, 230},
        maxHr \in {100, 30},
        hrv \in {Undefined, 50, 80, 400},
        rr \in {14, 45},
        bed \in {NullValue, 28},
        room \in {20, 60}}

RoughEntry == [median |-> 50, mad |-> 5]

Baselines ==
    {Baseline(FALSE, NoMetrics),
     Baseline(TRUE, NoMetrics),
     Baseline(TRUE, [m \in {"avgHrv"} |-> RoughEntry]),
     Baseline(TRUE, [m \in {"avgHrv", "minHeartRate", "durationSeconds"} |->
                        IF m = "durationSeconds"
                        THEN [median |-> 28800, mad |-> 1800]
                        ELSE IF m = "minHeartRate"
                        THEN [median |-> 50, mad |-> 0]
                        ELSE RoughEntry])}

QualityInit ==
    /\ sources = EmptyTable
    /\ sleepSessions = EmptyTable
    /\ workoutSessions = EmptyTable
    /\ dailyMetrics = EmptyTable
    /\ timeSeries = EmptyTable
    /\ nextId = 1
    /\ imports = 0
    /\ pc = "check"
    /\ \E session \in QualitySessions, baseline \in Baselines :
          run = [session |-> session, baseline |-> baseline]
    /\ events = <<>>
    /\ results = <<>>
    /\ thrown = FALSE
    /\ cbThrew = FALSE
    /\ storeFailed = FALSE
    /\ prev = NoPrev

CheckQuality ==
    /\ pc = "check"
    /\ results' = <<checkSleepSessionQuality(run.session, run.baseline,
                                             DEFAULT_MAD_THRESHOLD)>>
    /\ pc' = "checked"
    /\ UNCHANGED <<tables, nextId, imports, run, events, thrown, cbThrew,
                   storeFailed, prev>>

QualityNext == CheckQuality

QualitySpec == QualityInit /\ [][QualityNext]_vars

\* ------------------------------------------------------------------------
\* The "night of" date of transformRawSession. Time is counted in half
\* hours since the epoch (48 to a day); a time zone is its offset from UTC
\* in half hours. Daylight saving changes are left out.
\*   run.ts, run.zone   the start of the session and the local time zone
\*   results            the date, as a day number since the epoch
\* ------------------------------------------------------------------------
MaxDays == 3

\* UTC-8, UTC, UTC+5:30 and UTC+9
Zones == {-16, 0, 11, 18}

\* Date.prototype.getHours: the hour of the local time
getHours(t, zone) == ((t + zone) % 48) \div 2

\* dateObj.setDate(dateObj.getDate() - 1): the same local time one day before
setDatePrevious(t) == t - 48

\* toISOString().split('T')[0]: the calendar day in UTC
toISODate(t) == t \div 48

\* transformRawSession: the date of the session that starts at ts
nightOfDate(ts, zone) ==
    toISODate(IF getHours(ts, zone) < 6 THEN setDatePrevious(ts) ELSE ts)

DateInit ==
    /\ sources = EmptyTable
    /\ sleepSessions = EmptyTable
    /\ workoutSessions = EmptyTable
    /\ dailyMetrics = EmptyTable
    /\ timeSeries = EmptyTable
    /\ nextId = 1
    /\ imports = 0
    /\ pc = "date"
    /\ \E ts \in 48..(48 * (MaxDays + 1) - 1), zone \in Zones :
          run = [ts |-> ts, zone |-> zone]
    /\ events = <<>>
    /\ results = <<>>
    /\ thrown = FALSE
    /\ cbThrew = FALSE
    /\ storeFailed = FALSE
    /\ prev = NoPrev

SetDate ==
    /\ pc = "date"
    /\ results' = <<nightOfDate(run.ts, run.zone)>>
    /\ pc' = "dated"
    /\ UNCHANGED <<tables, nextId, imports, run, events, thrown, cbThrew,
                   storeFailed, prev>>

DateNext == SetDate

DateSpec == DateInit /\ [][DateNext]_vars

\* ------------------------------------------------------------------------
\* detectFileType applied to one file
\*   run.file   the file
\*   results    the FileDetectionResult
\* ------------------------------------------------------------------------
\* The files by what detectFileType reads from them. A content that starts
\* with '{' or '[' does not start with '<', and a ZIP archive starts with
\* neither; a content that parses as JSON has no further reading.
DetectFiles ==
    {File(json, csv, header, xml, zip, name, <<>>) :
        json \in {"none", "invalid", "eight", "oura", "dashboard", "applePre",
                  "array", "object"},
        csv \in BOOLEAN, header \in {"plain", "splat", "oura"},
        xml \in {"none", "apple", "other"}, zip \in BOOLEAN,
        name \in {"", "otf", "apple"}}

PossibleFile(f) ==
    /\ f.json # "none" => f.xml = "none" /\ ~f.zip
    /\ f.zip => f.xml = "none"
    /\ ~f.csv => f.header = "plain"

DetectInit ==
    /\ sources = EmptyTable
    /\ sleepSessions = EmptyTable
    /\ workoutSessions = EmptyTable
    /\ dailyMetrics = EmptyTable
    /\ timeSeries = EmptyTable
    /\ nextId = 1
    /\ imports = 0
    /\ pc = "detect"
    /\ \E f \in DetectFiles : PossibleFile(f) /\ run = [file |-> f]
    /\ events = <<>>
    /\ results = <<>>
    /\ thrown = FALSE
    /\ cbThrew = FALSE
    /\ storeFailed = FALSE
    /\ prev = NoPrev

DetectOnly ==
    /\ pc = "detect"
    /\ results' = <<detectFileType(run.file)>>
    /\ pc' = "detected"
    /\ UNCHANGED <<tables, nextId, imports, run, events, thrown, cbThrew,
                   storeFailed, prev>>

DetectNext == DetectOnly

DetectSpec == DetectInit /\ [][DetectNext]_vars

\* ------------------------------------------------------------------------
\* transformSleepSegments of the Apple Health XML parser, on the sleep
\* analysis records of one date and source. A date attribute is a time in
\* seconds, NullValue when the attribute is empty or absent (parseAppleDate
\* returns null) or NaN when the string is not a date (new Date gives an
\* Invalid Date, whose time is NaN).
\*   run.segments   the records, in the order the sort leaves them
\*   results        the outcome: a session, null or an exception
\* ------------------------------------------------------------------------
MaxSegments == 2

SleepValues == {"AsleepDeep", "AsleepREM", "AsleepCore", "InBed"}

Segments ==
    [value : SleepValues, startDate : {0, 1800, NaN},
     endDate : {1800, 3600, NaN, NullValue}]

\* The valid start dates of the records are in order after the sort; a
\* string that is not a date can sort anywhere
SortedSegments(segments) ==
    \A i, j \in 1..Len(segments) :
        (i < j /\ segments[i].startDate # NaN /\ segments[j].startDate # NaN)
            => segments[i].startDate <= segments[j].startDate

NoTotals ==
    [deepSeconds |-> 0, remSeconds |-> 0, lightSeconds |-> 0, inBedSeconds |-> 0,
     earliestStart |-> NullValue, latestEnd |-> NullValue]

RECURSIVE SegmentTotals(_, _)
\* The loop over the segments
SegmentTotals(segments, t) ==
    IF segments = <<>> THEN t
    ELSE LET seg == Head(segments)
             durationSec == NumSub(seg.endDate, seg.startDate)
             next ==
               IF seg.endDate = NullValue THEN t
               ELSE [t EXCEPT
                      !.earliestStart =
                          IF @ = NullValue \/ NumLess(seg.startDate, @)
                          THEN seg.startDate ELSE @,
                      !.latestEnd =
                          IF @ = NullValue \/ NumLess(@, seg.endDate)
                          THEN seg.endDate ELSE @,
                      !.deepSeconds =
                          IF seg.value = "AsleepDeep" THEN NumAdd(@, durationSec) ELSE @,
                      !.remSeconds =
                          IF seg.value = "AsleepREM" THEN NumAdd(@, durationSec) ELSE @,
                      !.lightSeconds =
                          IF seg.value = "AsleepCore" THEN NumAdd(@, durationSec) ELSE @,
                      !.inBedSeconds =
                          IF seg.value = "InBed" THEN NumAdd(@, durationSec) ELSE @]
         IN  SegmentTotals(Tail(segments), next)

\* transformSleepSegments: toISOString throws on an Invalid Date
transformSleepSegments(segments) ==
    LET t == SegmentTotals(segments, NoTotals)
        durationSeconds == NumAdd(NumAdd(t.deepSeconds, t.remSeconds), t.lightSeconds)
        timeInBedSeconds == IF NumLess(0, t.inBedSeconds) THEN t.inBedSeconds
                            ELSE NumSub(t.latestEnd, t.earliestStart)
    IN  IF segments = <<>> THEN Dropped
        ELSE IF t.earliestStart = NullValue \/ t.latestEnd = NullValue THEN Dropped
        ELSE IF NumLess(durationSeconds, 1800) THEN Dropped
        ELSE IF t.earliestStart = NaN \/ t.latestEnd = NaN THEN Threw
        ELSE Produced("session",
               [durationSeconds |-> durationSeconds,
                deepSeconds |-> t.deepSeconds, remSeconds |-> t.remSeconds,
                lightSeconds |-> t.lightSeconds,
                timeInBedSeconds |-> timeInBedSeconds,
                efficiency |->
                    IF NumLess(0, timeInBedSeconds)
                    THEN NumPercent(durationSeconds, timeInBedSeconds)
                    ELSE Undefined])

SegmentsInit ==
    /\ sources = EmptyTable
    /\ sleepSessions = EmptyTable
    /\ workoutSessions = EmptyTable
    /\ dailyMetrics = EmptyTable
    /\ timeSeries = EmptyTable
    /\ nextId = 1
    /\ imports = 0
    /\ pc = "segments"
    /\ \E n \in 0..MaxSegments : \E segments \in [1..n -> Segments] :
          /\ SortedSegments(segments)
          /\ run = [segments |-> segments]
    /\ events = <<>>
    /\ results = <<>>
    /\ thrown = FALSE
    /\ cbThrew = FALSE
    /\ storeFailed = FALSE
    /\ prev = NoPrev

BuildSession ==
    /\ pc = "segments"
    /\ results' = <<transformSleepSegments(run.segments)>>
    /\ pc' = "built"
    /\ UNCHANGED <<tables, nextId, imports, run, events, thrown, cbThrew,
                   storeFailed, prev>>

SegmentsNext == BuildSession

SegmentsSpec == SegmentsInit /\ [][SegmentsNext]_vars

\* ------------------------------------------------------------------------
\* A baseline computed from a sample, and a value scored against it
\*   run.sample, run.value   the sample of a metric and the value of a session
\*   results                 median and MAD of the sample, the robust
\*                           z-score of the value, and whether
\*                           checkSleepSessionQuality lists the field
\* ------------------------------------------------------------------------
MaxSample == 3

SampleValues == {40, 48, 60}

ScoredValues == {40, 60, 400}

MadInit ==
    /\ sources = EmptyTable
    /\ sleepSessions = EmptyTable
    /\ workoutSessions = EmptyTable
    /\ dailyMetrics = EmptyTable
    /\ timeSeries = EmptyTable
    /\ nextId = 1
    /\ imports = 0
    /\ pc = "score"
    /\ \E n \in 0..MaxSample : \E sample \in [1..n -> SampleValues] :
          \E value \in ScoredValues : run = [sample |-> sample, value |-> value]
    /\ events = <<>>
    /\ results = <<>>
    /\ thrown = FALSE
    /\ cbThrew = FALSE
    /\ storeFailed = FALSE
    /\ prev = NoPrev

Score ==
    /\ pc = "score"
    /\ LET med == median(run.sample)
           mad == medianAbsoluteDeviation(run.sample)
           session == [avgHrv |-> run.value]
           map == [m \in {"avgHrv"} |-> [median |-> med, mad |-> mad]]
       IN  results' = <<[median |-> med, mad |-> mad,
                         zScore |-> robustZScore(run.value, med, mad),
                         outlierFields |->
                             OutlierFields(session, map, DEFAULT_MAD_THRESHOLD,
                                           metricsToCheck)]>>
    /\ pc' = "scored"
    /\ UNCHANGED <<tables, nextId, imports, run, events, thrown, cbThrew,
                   storeFailed, prev>>

MadNext == Score

MadSpec == MadInit /\ [][MadNext]_vars

\* ------------------------------------------------------------------------
\* deduplicateSessions on sessions of one night that name the device they
\* came from (vendorData.source of the Apple Health records)
\*   run.sessions   the incoming sessions, all of date 1 and user 1
\*   sleepSessions  the store: empty, or one session of that date
\*   results        what deduplicateSessions returns
\* ------------------------------------------------------------------------
MaxNight == 3

NightShapes == {PreSparse, XmlThin, PreRich}

\* The i-th incoming session: its source name is i; the stored session has
\* the name MaxNight + 1
NightSession(i, f) ==
    [validateSession(Session(100 + i, 1, 2, 1, f))
        EXCEPT !.vendorData = [source |-> i, mergedSources |-> <<>>]]

StoredNight(f) ==
    [validateSession(Session(50, 1, 1, 1, f))
        EXCEPT !.vendorData = [source |-> MaxNight + 1,
                               mergedSources |-> <<>>]]

NightInit ==
    /\ sources = EmptyTable
    /\ \/ sleepSessions = EmptyTable
       \/ \E f \in NightShapes : sleepSessions = put(EmptyTable, StoredNight(f))
    /\ workoutSessions = EmptyTable
    /\ dailyMetrics = EmptyTable
    /\ timeSeries = EmptyTable
    /\ nextId = 1
    /\ imports = 0
    /\ pc = "dedup"
    /\ \E k \in 1..MaxNight : \E shapes \in [1..k -> NightShapes] :
          run = [sessions |-> [i \in 1..k |-> NightSession(i, shapes[i])]]
    /\ events = <<>>
    /\ results = <<>>
    /\ thrown = FALSE
    /\ cbThrew = FALSE
    /\ storeFailed = FALSE
    /\ prev = NoPrev

DedupNight ==
    /\ pc = "dedup"
    /\ results' = <<deduplicateSessions(run.sessions, 1, sleepSessions)>>
    /\ pc' = "deduped"
    /\ UNCHANGED <<tables, nextId, imports, run, events, thrown, cbThrew,
                   storeFailed, prev>>

NightNext == DedupNight

NightSpec == NightInit /\ [][NightNext]_vars

\* ------------------------------------------------------------------------
\* importFile on an Apple Health XML export that holds the sleep analysis
\* records of one date and source: the session transformSleepSegments
\* builds is validated, deduplicated against the store and written.
\*   run.segments   the records
\*   sleepSessions  the store: empty, or one session of that date
\* ------------------------------------------------------------------------
XmlSleepInit ==
    /\ sources = EmptyTable
    /\ \/ sleepSessions = EmptyTable
       \/ sleepSessions = put(EmptyTable, validateSession(Session(50, 1, 1, 1, PreSparse)))
    /\ workoutSessions = EmptyTable
    /\ dailyMetrics = EmptyTable
    /\ timeSeries = EmptyTable
    /\ nextId = 1
    /\ imports = 0
    /\ pc = "xml"
    /\ \E n \in 0..MaxSegments : \E segments \in [1..n -> Segments] :
          /\ SortedSegments(segments)
          /\ run = [segments |-> segments]
    /\ events = <<>>
    /\ results = <<>>
    /\ thrown = FALSE
    /\ cbThrew = FALSE
    /\ storeFailed = FALSE
    /\ prev = NoPrev

\* The session of the XML parser as a SleepSession record
XmlSleepSession(rec, id, sourceId) ==
    Session(id, 1, sourceId, 1,
            Fields(rec.durationSeconds, rec.deepSeconds, rec.remSeconds,
                   rec.lightSeconds, 0, Undefined, Undefined, Undefined,
                   Undefined, Undefined, Undefined, rec.efficiency))

ImportXmlSleep ==
    /\ pc = "xml"
    /\ LET outcome == transformSleepSegments(run.segments)
       IN  IF outcome.tag = "throw"
           THEN /\ thrown' = TRUE
                /\ UNCHANGED <<tables, nextId, results>>
           ELSE LET parsed == IF outcome.tag = "session"
                              THEN <<XmlSleepSession(outcome.rec, nextId + 1, nextId)>>
                              ELSE <<>>
                    validatedSessions == validateSessions(parsed)
                    dedupResult == deduplicateSessions(validatedSessions, 1,
                                                       sleepSessions)
                IN  /\ sources' = put(sources, [id |-> nextId, userId |-> 1,
                                                 vendor |-> "apple_health"])
                    /\ sleepSessions' = putMany(sleepSessions, dedupResult.sessions)
                    /\ nextId' = nextId + 2
                    /\ results' = <<dedupResult>>
                    /\ UNCHANGED <<workoutSessions, dailyMetrics, timeSeries, thrown>>
    /\ pc' = "done"
    /\ UNCHANGED <<imports, run, events, cbThrew, storeFailed, prev>>

XmlSleepNext == ImportXmlSleep

XmlSleepSpec == XmlSleepInit /\ [][XmlSleepNext]_vars

\* ------------------------------------------------------------------------
\* buildColumnMap of the Orangetheory importer, on the header names of a
\* CSV file. A string is the sequence of its characters.
\*   run.keys   Object.keys(sampleRow): the header names, in file order
\*   results    the column map: canonical field -> header name
\* ------------------------------------------------------------------------
MaxHeaders == 2

UpperCase == <<"A", "B", "C", "D", "E", "F", "G", "H", "I", "J", "K", "L", "M",
               "N", "O", "P", "Q", "R", "S", "T", "U", "V", "W", "X", "Y", "Z">>
LowerCase == <<"a", "b", "c", "d", "e", "f", "g", "h", "i", "j", "k", "l", "m",
               "n", "o", "p", "q", "r", "s", "t", "u", "v", "w", "x", "y", "z">>

\* String.prototype.toLowerCase
toLowerCase(str) ==
    [i \in 1..Len(str) |->
        IF \E k \in 1..Len(UpperCase) : UpperCase[k] = str[i]
        THEN LowerCase[CHOOSE k \in 1..Len(UpperCase) : UpperCase[k] = str[i]]
        ELSE str[i]]

\* String.prototype.trim
RECURSIVE trim(_)
trim(str) ==
    IF str = <<>> THEN str
    ELSE IF Head(str) = " " THEN trim(Tail(str))
    ELSE IF str[Len(str)] = " " THEN trim(SubSeq(str, 1, Len(str) - 1))
    ELSE str

\* String.prototype.includes
includes(str, part) ==
    \E k \in 0..(Len(str) - Len(part)) : SubSeq(str, k + 1, k + Len(part)) = part

\* The test of headers.find
HeaderMatches(h, alias) ==
    h = toLowerCase(alias) \/ includes(h, toLowerCase(alias))

COLUMN_ALIASES ==
    <<
     [canonical |-> "date",
      aliases |-> <<
          <<"d", "a", "t", "e">>,
          <<"w", "o", "r", "k", "o", "u", "t", "_", "d", "a", "t", "e">>,
          <<"c", "l", "a", "s", "s", "_", "d", "a", "t", "e">>,
          <<"w", "o", "r", "k", "o", "u", "t", " ", "d", "a", "t", "e">>,
          <<"c", "l", "a", "s", "s", " ", "d", "a", "t", "e">>,
          <<"s", "e", "s", "s", "i", "o", "n", "_", "d", "a", "t", "e">>>>],
     [canonical |-> "class_type",
      aliases |-> <<
          <<"c", "l", "a", "s", "s", "_", "t", "y", "p", "e">>,
          <<"c", "l", "a", "s", "s", " ", "t", "y", "p", "e">>,
          <<"w", "o", "r", "k", "o", "u", "t", "_", "t", "y", "p", "e">>,
          <<"w", "o", "r", "k", "o", "u", "t", " ", "t", "y", "p", "e">>,
          <<"t", "y", "p", "e">>,
          <<"c", "l", "a", "s", "s">>>>],
     [canonical |-> "duration",
      aliases |-> <<
          <<"d", "u", "r", "a", "t", "i", "o", "n">>,
          <<"c", "l", "a", "s", "s", "_", "d", "u", "r", "a", "t", "i", "o", "n">>,
          <<"c", "l", "a", "s", "s", " ", "d", "u", "r", "a", "t", "i", "o", "n">>,
          <<"w", "o", "r", "k", "o", "u", "t", "_", "d", "u", "r", "a", "t", "i", "o", "n">>,
          <<"w", "o", "r", "k", "o", "u", "t", " ", "d", "u", "r", "a", "t", "i", "o", "n">>,
          <<"t", "i", "m", "e">>,
          <<"t", "o", "t", "a", "l", "_", "t", "i", "m", "e">>>>],
     [canonical |-> "calories",
      aliases |-> <<
          <<"c", "a", "l", "o", "r", "i", "e", "s">>,
          <<"c", "a", "l", "o", "r", "i", "e", "s", "_", "b", "u", "r", "n", "e", "d">>,
          <<"c", "a", "l", "o", "r", "i", "e", "s", " ", "b", "u", "r", "n", "e", "d">>,
          <<"t", "o", "t", "a", "l", "_", "c", "a", "l", "o", "r", "i", "e", "s">>,
          <<"t", "o", "t", "a", "l", " ", "c", "a", "l", "o", "r", "i", "e", "s">>,
          <<"c", "a", "l">>>>],
     [canonical |-> "splat_points",
      aliases |-> <<
          <<"s", "p", "l", "a", "t", "_", "p", "o", "i", "n", "t", "s">>,
          <<"s", "p", "l", "a", "t", " ", "p", "o", "i", "n", "t", "s">>,
          <<"s", "p", "l", "a", "t", "s">>,
          <<"s", "p", "l", "a", "t">>,
          <<"s", "p", "l", "a", "t", "p", "o", "i", "n", "t", "s">>>>],
     [canonical |-> "avg_hr",
      aliases |-> <<
          <<"a", "v", "g", "_", "h", "r">>,
          <<"a", "v", "g", " ", "h", "r">>,
          <<"a", "v", "e", "r", "a", "g", "e", "_", "h", "e", "a", "r", "t", "_", "r", "a", "t", "e">>,
          <<"a", "v", "e", "r", "a", "g", "e", " ", "h", "e", "a", "r", "t", " ", "r", "a", "t", "e">>,
          <<"a", "v", "g", "_", "h", "e", "a", "r", "t", "_", "r", "a", "t", "e">>,
          <<"a", "v", "g", " ", "h", "e", "a", "r", "t", " ", "r", "a", "t", "e">>,
          <<"a", "v", "g", "h", "r">>>>],
     [canonical |-> "max_hr",
      aliases |-> <<
          <<"m", "a", "x", "_", "h", "r">>,
          <<"m", "a", "x", " ", "h", "r">>,
          <<"m", "a", "x", "i", "m", "u", "m", "_", "h", "e", "a", "r", "t", "_", "r", "a", "t", "e">>,
          <<"m", "a", "x", "i", "m", "u", "m", " ", "h", "e", "a", "r", "t", " ", "r", "a", "t", "e">>,
          <<"m", "a", "x", "_", "h", "e", "a", "r", "t", "_", "r", "a", "t", "e">>,
          <<"m", "a", "x", " ", "h", "e", "a", "r", "t", " ", "r", "a", "t", "e">>,
          <<"m", "a", "x", "h", "r">>>>],
     [canonical |-> "zone_1",
      aliases |-> <<
          <<"z", "o", "n", "e", "_", "1">>,
          <<"z", "o", "n", "e", " ", "1">>,
          <<"g", "r", "a", "y", "_", "z", "o", "n", "e">>,
          <<"g", "r", "a", "y", " ", "z", "o", "n", "e">>,
          <<"g", "r", "e", "y", "_", "z", "o", "n", "e">>,
          <<"g", "r", "e", "y", " ", "z", "o", "n", "e">>,
          <<"z", "o", "n", "e", "1">>,
          <<"g", "r", "a", "y">>>>],
     [canonical |-> "zone_2",
      aliases |-> <<
          <<"z", "o", "n", "e", "_", "2">>,
          <<"z", "o", "n", "e", " ", "2">>,
          <<"b", "l", "u", "e", "_", "z", "o", "n", "e">>,
          <<"b", "l", "u", "e", " ", "z", "o", "n", "e">>,
          <<"z", "o", "n", "e", "2">>,
          <<"b", "l", "u", "e">>>>],
     [canonical |-> "zone_3",
      aliases |-> <<
          <<"z", "o", "n", "e", "_", "3">>,
          <<"z", "o", "n", "e", " ", "3">>,
          <<"g", "r", "e", "e", "n", "_", "z", "o", "n", "e">>,
          <<"g", "r", "e", "e", "n", " ", "z", "o", "n", "e">>,
          <<"z", "o", "n", "e", "3">>,
          <<"g", "r", "e", "e", "n">>>>],
     [canonical |-> "zone_4",
      aliases |-> <<
          <<"z", "o", "n", "e", "_", "4">>,
          <<"z", "o", "n", "e", " ", "4">>,
          <<"o", "r", "a", "n", "g", "e", "_", "z", "o", "n", "e">>,
          <<"o", "r", "a", "n", "g", "e", " ", "z", "o", "n", "e">>,
          <<"z", "o", "n", "e", "4">>,
          <<"o", "r", "a", "n", "g", "e">>>>],
     [canonical |-> "zone_5",
      aliases |-> <<
          <<"z", "o", "n", "e", "_", "5">>,
          <<"z", "o", "n", "e", " ", "5">>,
          <<"r", "e", "d", "_", "z", "o", "n", "e">>,
          <<"r", "e", "d", " ", "z", "o", "n", "e">>,
          <<"z", "o", "n", "e", "5">>,
          <<"r", "e", "d">>>>],
     [canonical |-> "tread_distance",
      aliases |-> <<
          <<"t", "r", "e", "a", "d", "_", "d", "i", "s", "t", "a", "n", "c", "e">>,
          <<"t", "r", "e", "a", "d", " ", "d", "i", "s", "t", "a", "n", "c", "e">>,
          <<"t", "r", "e", "a", "d", "m", "i", "l", "l", "_", "d", "i", "s", "t", "a", "n", "c", "e">>,
          <<"t", "r", "e", "a", "d", "m", "i", "l", "l", " ", "d", "i", "s", "t", "a", "n", "c", "e">>,
          <<"d", "i", "s", "t", "a", "n", "c", "e">>,
          <<"m", "i", "l", "e", "s">>>>],
     [canonical |-> "row_distance",
      aliases |-> <<
          <<"r", "o", "w", "_", "d", "i", "s", "t", "a", "n", "c", "e">>,
          <<"r", "o", "w", " ", "d", "i", "s", "t", "a", "n", "c", "e">>,
          <<"r", "o", "w", "e", "r", "_", "d", "i", "s", "t", "a", "n", "c", "e">>,
          <<"r", "o", "w", "e", "r", " ", "d", "i", "s", "t", "a", "n", "c", "e">>,
          <<"r", "o", "w", "_", "m", "e", "t", "e", "r", "s">>,
          <<"r", "o", "w", " ", "m", "e", "t", "e", "r", "s">>>>]>>

\* Array.prototype.find on indices: the first index of the set, 0 if none
FirstIndex(S) == IF S = {} THEN 0 ELSE CHOOSE i \in S : \A j \in S : i <= j

\* The header a canonical field is mapped to by the loop over its aliases,
\* <<>> when no alias matches
MappedHeader(keys, aliases) ==
    LET headers == [i \in 1..Len(keys) |-> trim(toLowerCase(keys[i]))]
        hit(a) == FirstIndex({i \in 1..Len(headers) :
                                 HeaderMatches(headers[i], aliases[a])})
        first == FirstIndex({a \in 1..Len(aliases) : hit(a) # 0})
    IN  IF first = 0 THEN <<>>
        ELSE keys[FirstIndex({i \in 1..Len(keys) :
                 trim(toLowerCase(keys[i])) = headers[hit(first)]})]

\* buildColumnMap
buildColumnMap(keys) ==
    LET mapped == {k \in 1..Len(COLUMN_ALIASES) :
                      MappedHeader(keys, COLUMN_ALIASES[k].aliases) # <<>>}
    IN  [c \in {COLUMN_ALIASES[k].canonical : k \in mapped} |->
            MappedHeader(keys,
                COLUMN_ALIASES[CHOOSE k \in mapped :
                                  COLUMN_ALIASES[k].canonical = c].aliases)]

\* Header names: "Date", "Class_Date", "Class Type", " Calories ", "Credits",
\* "Class Duration", "red zone", "Time", "Splat Points"
HeaderNames ==
    {
     <<"S", "p", "l", "a", "t", " ", "P", "o", "i", "n", "t", "s">>,
     <<"D", "a", "t", "e">>,
     <<"C", "l", "a", "s", "s", "_", "D", "a", "t", "e">>,
     <<"C", "l", "a", "s", "s", " ", "T", "y", "p", "e">>,
     <<" ", "C", "a", "l", "o", "r", "i", "e", "s", " ">>,
     <<"C", "r", "e", "d", "i", "t", "s">>,
     <<"C", "l", "a", "s", "s", " ", "D", "u", "r", "a", "t", "i", "o", "n">>,
     <<"r", "e", "d", " ", "z", "o", "n", "e">>,
     <<"T", "i", "m", "e">>}

ColumnInit ==
    /\ sources = EmptyTable
    /\ sleepSessions = EmptyTable
    /\ workoutSessions = EmptyTable
    /\ dailyMetrics = EmptyTable
    /\ timeSeries = EmptyTable
    /\ nextId = 1
    /\ imports = 0
    /\ pc = "map"
    /\ \E n \in 1..MaxHeaders : \E keys \in [1..n -> HeaderNames] :
          /\ \A i, j \in 1..n : i # j => keys[i] # keys[j]
          /\ run = [keys |-> keys]
    /\ events = <<>>
    /\ results = <<>>
    /\ thrown = FALSE
    /\ cbThrew = FALSE
    /\ storeFailed = FALSE
    /\ prev = NoPrev

BuildColumnMap ==
    /\ pc = "map"
    /\ results' = <<buildColumnMap(run.keys)>>
    /\ pc' = "mapped"
    /\ UNCHANGED <<tables, nextId, imports, run, events, thrown, cbThrew,
                   storeFailed, prev>>

ColumnNext == BuildColumnMap

ColumnSpec == ColumnInit /\ [][ColumnNext]_vars

\* ------------------------------------------------------------------------
\* Properties
\* ------------------------------------------------------------------------
Succeeded == pc = "done" /\ Len(results) = 1 /\ results[1].success

\* The running call is at or past deduplicateSessions, or has ended (with
\* either outcome)
Deduplicated ==
    pc \in {"putSource", "putSleep", "putWorkouts", "putLast", "complete", "done"}

\* The stored session deduplicateSessions compared a date with, and the
\* incoming session of a date after the sessions sharing it are collapsed
StoredBefore == ExistingByDate(getAll(run.before), run.userId, <<>>)
Collapsed == IncomingByDate(run.validated, <<>>)
IncomingDates == {run.validated[i].date : i \in 1..Len(run.validated)}
EmittedFor(date) == {i \in 1..Len(run.dedup.sessions) : run.dedup.sessions[i].date = date}
StoredFor(table, userId, date) ==
    {k \in DOMAIN table : table[k].userId = userId /\ table[k].date = date}

\* Dates of the running import whose stored session scores at least as
\* high as, or lower than, the collapsed incoming session
SkipDates ==
    {c.date : c \in {Collapsed[i] : i \in 1..Len(Collapsed)}} \cap
    {d \in DOMAIN StoredBefore :
        \A i \in 1..Len(Collapsed) :
            Collapsed[i].date = d =>
                getSessionCompleteness(StoredBefore[d])
                    >= getSessionCompleteness(Collapsed[i])}
MergeDates ==
    {c.date : c \in {Collapsed[i] : i \in 1..Len(Collapsed)}} \cap
    {d \in DOMAIN StoredBefore :
        \A i \in 1..Len(Collapsed) :
            Collapsed[i].date = d =>
                getSessionCompleteness(Collapsed[i])
                    > getSessionCompleteness(StoredBefore[d])}

\* C1: importing the same file for the same user twice in a row leaves as
\* many stored sleep sessions as importing it once, and in the second run
\* mergedCount + skippedCount is the number of distinct dates of the file.
C1_ReimportIdempotent ==
    (Succeeded /\ prev.success
        /\ prev.input = Input(run.file, run.userId, run.profile))
    => /\ Cardinality(DOMAIN sleepSessions) = prev.count
       /\ run.dedup.mergedCount + run.dedup.skippedCount
              = Cardinality(IncomingDates)

\* C1 witness: a second import of the same file has succeeded, with two
\* rows sharing one date and both counters exercised by the first run
C1_Witness ==
    /\ Succeeded
    /\ prev.success
    /\ prev.input = Input(run.file, run.userId, run.profile)
    /\ Len(run.validated) = 2
    /\ Cardinality(IncomingDates) = 1
    /\ run.dedup.skippedCount = 1

\* C2: when the stored session of a date scores at least as high as the
\* collapsed incoming one, the incoming session is not emitted, it is counted
\* in skippedCount, and after the import the stored record is unchanged; in
\* every state of an import the best stored score of a date is not below the
\* score it had before.
C2_RicherStoredKept ==
    Deduplicated =>
       /\ \A d \in SkipDates : EmittedFor(d) = {}
       /\ run.dedup.skippedCount = Cardinality(SkipDates)
       /\ \A d \in SkipDates :
             /\ StoredBefore[d].id \in DOMAIN sleepSessions
             /\ sleepSessions[StoredBefore[d].id] = StoredBefore[d]
       /\ \A d \in DOMAIN StoredBefore :
             \E k \in StoredFor(sleepSessions, run.userId, d) :
                 getSessionCompleteness(sleepSessions[k])
                     >= getSessionCompleteness(StoredBefore[d])

\* C2 witness: a thinner session for a stored date was imported and skipped
C2_Witness ==
    /\ Succeeded
    /\ \E d \in SkipDates :
          \E i \in 1..Len(Collapsed) :
             /\ Collapsed[i].date = d
             /\ getSessionCompleteness(Collapsed[i])
                    < getSessionCompleteness(StoredBefore[d])

\* C3: when the collapsed incoming session scores strictly higher than the
\* stored one, exactly one session is emitted for the date, it carries the
\* stored session's id and is counted in mergedCount; once written it has
\* replaced the stored record, so the date has as many records as before.
C3_MergeKeepsStoredId ==
    Deduplicated =>
       /\ \A d \in MergeDates :
             /\ Cardinality(EmittedFor(d)) = 1
             /\ \A i \in EmittedFor(d) :
                   run.dedup.sessions[i].id = StoredBefore[d].id
       /\ run.dedup.mergedCount = Cardinality(MergeDates)
       /\ Succeeded =>
             \A d \in MergeDates :
                /\ Cardinality(StoredFor(sleepSessions, run.userId, d))
                      = Cardinality(StoredFor(run.before, run.userId, d))
                /\ getSessionCompleteness(sleepSessions[StoredBefore[d].id])
                      > getSessionCompleteness(StoredBefore[d])

\* C3 witness: a sparse stored session was replaced by a richer import:
\* mergedCount = 1 and still one record for the date
C3_Witness ==
    /\ Succeeded
    /\ run.dedup.mergedCount = 1
    /\ \E d \in MergeDates :
          Cardinality(StoredFor(sleepSessions, run.userId, d)) = 1

\* C5: the sleepSessions table never holds two sessions of one user for one
\* date.
C5_OneSessionPerUserDate ==
    \A k1, k2 \in DOMAIN sleepSessions :
        (sleepSessions[k1].userId = sleepSessions[k2].userId
            /\ sleepSessions[k1].date = sleepSessions[k2].date) => k1 = k2

\* C5 witness: two incoming sessions shared a date, one stored session had
\* it too, and the import has completed
C5_Witness ==
    /\ Succeeded
    /\ Len(run.validated) = 2
    /\ Cardinality(IncomingDates) = 1
    /\ IncomingDates \subseteq DOMAIN StoredBefore

\* The fields mergeSessions fills, and when one holds a value: the rates and
\* durations when they are a non-zero number, the temperatures when they are
\* any number, the efficiency when it is a non-zero number up to 100
FilledFields == NumFields \ {"durationSeconds"}
Present(session, field) ==
    IF field \in {"avgBedTempC", "avgRoomTempC"}
    THEN session[field] # Undefined /\ session[field] # NullValue
    ELSE IF field = "efficiency"
    THEN session[field] # Undefined /\ session[field] # NullValue
         /\ session[field] # 0 /\ session[field] <= 100
    ELSE session[field] # Undefined /\ session[field] # NullValue
         /\ session[field] # 0

Importable(file, profile) ==
    LET detection == detectFileType(file)
    IN /\ detection.fileType # "unknown"
       /\ SelectProfile(profile, detection) # "none"
       /\ \/ detection.fileType = "xml" /\ detection.suggestedVendor = "apple_health"
          \/ detection.fileType \in {"json", "csv"}
Unrecoverable ==
    storeFailed \/ run.escaped \/ ~Importable(run.file, run.profile)
Occurrences(stage) == Cardinality({i \in 1..Len(events) : events[i] = stage})

\* C6: importFile never throws; it returns exactly one result, and only when
\* it ends; after a store failure, an exception leaving a parser, an unknown
\* format or a missing importer that result has success = false, a non-empty
\* errors list and all record counts zero, and the import was not started
\* over (the first stage was reported once).
C6_AlwaysOneResult ==
    /\ ~thrown
    /\ (pc = "done") = (Len(results) = 1)
    /\ pc # "done" => results = <<>>
    /\ Occurrences("detecting") <= 1
    /\ pc = "done" =>
          /\ Unrecoverable =>
                /\ results[1].success = FALSE
                /\ results[1].errors # <<>>
                /\ results[1].recordCounts = Counts(0, 0, 0, 0)
          /\ results[1].success => results[1].errors = <<>>

\* C6 witness: the store failed after the sleep sessions were written, and
\* the call ended with its failure result
C6_Witness ==
    /\ pc = "done"
    /\ storeFailed
    /\ sleepSessions # run.before
    /\ Len(results) = 1
    /\ results[1].errors = <<Error("storage_error")>>

\* Position of a stage in the pipeline
StageRank(stage) ==
    CASE stage = "detecting" -> 1
      [] stage = "parsing" -> 2
      [] stage = "transforming" -> 3
      [] stage = "validating" -> 4
      [] stage = "storing" -> 5
      [] stage = "complete" -> 6

StagesForward ==
    \A i, j \in 1..Len(events) :
        i <= j => StageRank(events[i]) <= StageRank(events[j])

\* C7: the reported stages never go back to an earlier stage, 'complete' is
\* the last event when it is reported, and it is reported only by an import
\* that succeeds.
C7_StagesForwardCompleteLast ==
    /\ StagesForward
    /\ \A i \in 1..Len(events) : events[i] = "complete" => i = Len(events)
    /\ (pc = "done" /\ Occurrences("complete") > 0) => results[1].success

\* The rows of the running vendor file whose transform throws
BadRows ==
    {i \in 1..Len(run.file.rows) :
        RowOutcome(ParserOf(run), run.file.rows[i], 0, 0, 0).tag = "throw"}
WarningsOf(result) == {result.warnings[k] : k \in 1..Len(result.warnings)}

\* C8: when the callback and the store do not fail, a vendor file with rows
\* that cannot be parsed is still imported with success = true, and every
\* such row has a parse_error warning carrying its index.
C8_BadRowIsAWarning ==
    (pc = "done" /\ run.path = "vendor" /\ ~cbThrew /\ ~storeFailed) =>
        /\ results[1].success
        /\ \A i \in BadRows :
              Warning("parse_error", "row", i - 1) \in WarningsOf(results[1])

\* An exception leaves the parser the file is given to
ParserEscapes(file, profile) ==
    LET parser == ParserOf([importer |-> SelectProfile(profile, detectFileType(file)),
                            file |-> file])
    IN \E i \in 1..Len(file.rows) :
          /\ RowOutcome(parser, file.rows[i], 0, 0, 0).tag = "throw"
          /\ RowCatchThrows(parser, file.rows[i])

\* C9: a throwing onProgress callback does not change the outcome: a file
\* that is imported with success = true when the callback returns is
\* imported with success = true when it throws.
C9_CallbackThrowIsolated ==
    (pc = "done" /\ cbThrew /\ ~storeFailed
        /\ Importable(run.file, run.profile)
        /\ ~ParserEscapes(run.file, run.profile))
    => results[1].success

\* C10: content that starts like JSON and is not valid JSON, and an
\* exception that leaves a parser, end the import with a parse_error.
C10_ParseErrorIsTerminal ==
    (pc = "done" /\ ~cbThrew /\ ~storeFailed
        /\ (run.file.json = "invalid" \/ run.escaped))
    => /\ results[1].success = FALSE
       /\ results[1].errors = <<Error("parse_error")>>

\* The file of the running import is the file of a Source stored by an
\* earlier import
FileAlreadyImported ==
    \E k \in DOMAIN sources :
        k # run.sourceId /\ sources[k].fileHash = sha256(run.file)

\* C11: on every import path, importing a file whose hash is the fileHash of
\* a stored Source succeeds (when the callback and the store do not fail)
\* and the result carries the 'duplicate' warning for the repeated file.
C11_RepeatedFileWarned ==
    (pc = "done" /\ ~cbThrew /\ ~storeFailed /\ run.sourceId # 0
        /\ FileAlreadyImported)
    => /\ results[1].success
       /\ Warning("duplicate", "already_imported", Undefined)
              \in WarningsOf(results[1])

\* The running call has succeeded, and the call before it was the same
\* import ended by a failing store request
RetriedAfterStoreFailure ==
    /\ Succeeded
    /\ prev.storeFailed
    /\ prev.input = Input(run.file, run.userId, run.profile)

\* C12: after an import failed on a store request, with whatever part of its
\* writes applied, re-running it to success leaves what one uninterrupted
\* import leaves: the workouts, daily metrics and time series of the file
\* are in the store once, and no two sleep sessions share a user and date.
C12_RetryAddsNoCopy ==
    RetriedAfterStoreFailure =>
        /\ Cardinality(DOMAIN workoutSessions)
               = prev.start.workoutSessions + Len(run.workouts)
        /\ Cardinality(DOMAIN dailyMetrics)
               = prev.start.dailyMetrics + Len(run.metrics)
        /\ Cardinality(DOMAIN timeSeries)
               = prev.start.timeSeries + Len(run.series)
        /\ \A k1, k2 \in DOMAIN sleepSessions :
              (sleepSessions[k1].userId = sleepSessions[k2].userId
                  /\ sleepSessions[k1].date = sleepSessions[k2].date) => k1 = k2

\* The processFile calls that are inside importFile
Importing == {c \in 1..Len(run.calls) : run.calls[c].at = "importing"}

\* C13: two imports never run at once: at most one processFile call is
\* inside importFile at any time.
C13_OneImportAtATime == Cardinality(Importing) <= 1

\* The terminal responses of the parse p
TerminalResponses(p) ==
    {i \in 1..Len(events) :
        events[i].parse = p /\ events[i].type \in {"complete", "error"}}

\* C14: a parse during which a cancel message was handled ends with an
\* error that reports the cancellation, never with 'complete'.
C14_CancelledParseReportsCancel ==
    \A p \in 1..Len(run.parses) :
        run.parses[p].cancelSeen =>
            \A i \in TerminalResponses(p) :
                /\ events[i].type = "error"
                /\ events[i].message \in {"Cancelled", "Cancelled by user"}

\* The elements a scan of the whole document in one buffer processes
OneChunkScan(doc) ==
    Matches(doc, "Record", 0, DocLen(doc)) \o Matches(doc, "Workout", 0, DocLen(doc))

Processed(i) == Cardinality({k \in 1..Len(events) : events[k] = i})

\* C15: when the stream has ended, the chunked scan has processed every
\* element that the scan of the whole document processes, once each, and
\* nothing else.
C15_ChunkedScanEqualsWhole ==
    pc = "ended" =>
        \A i \in 1..Len(run.doc) :
            Processed(i) =
                Cardinality({k \in 1..Len(OneChunkScan(run.doc)) :
                                OneChunkScan(run.doc)[k] = i})

\* C16: after every chunk the kept tail is no longer than the safety
\* margin, and the buffer was never longer than the chunk plus the margin.
C16_BufferBounded ==
    pc = "stream" =>
        /\ run.read - run.from <= TailMargin
        /\ run.peak <= run.chunk + TailMargin

\* A chunk ended inside an element that began before the margin
C16_Witness ==
    /\ pc = "stream"
    /\ imports >= 2
    /\ run.read - run.from = TailMargin
    /\ run.peak = MaxChunkLen + TailMargin
    /\ \E i \in 1..Len(run.doc) :
          /\ ElemStart(run.doc, i) < run.from
          /\ ElemEnd(run.doc, i) > run.read

\* A value of the session lies outside its range of the table of limits
InRange(value, limitKey) ==
    HARD_LIMITS[limitKey].min <= value /\ value <= HARD_LIMITS[limitKey].max

HasValue(session, field) == FieldOf(session, field) \notin {Undefined, NullValue}

OutsideHardLimit(session) ==
    \/ \E k \in 1..Len(QualityChecks) :
          /\ HasValue(session, QualityChecks[k].field)
          /\ ~InRange(session[QualityChecks[k].field], QualityChecks[k].limitKey)
    \/ LET totalSleep ==
               session.deepSeconds + session.remSeconds + session.lightSeconds
       IN  /\ totalSleep > 0
           /\ \/ session.deepSeconds * 100 > 60 * totalSleep
              \/ session.remSeconds * 100 > 60 * totalSleep
              \/ session.deepSeconds < 0
              \/ session.remSeconds < 0

Verdict(quality, action) ==
    /\ results[1].overallQuality = quality
    /\ results[1].suggestedAction = action

\* C17: a session with a value outside its hard limit is 'bad' /
\* 'exclude_from_baseline', whatever the baseline.
C17_HardViolationIsBad ==
    (pc = "checked" /\ OutsideHardLimit(run.session))
        => Verdict("bad", "exclude_from_baseline")

\* avgHrv = 400 with a baseline under which nothing else stands out
C17_Witness ==
    /\ pc = "checked"
    /\ run.session.avgHrv = 400
    /\ run.baseline.passed
    /\ "avgHrv" \in DOMAIN run.baseline.map
    /\ Len(results[1].hardLimitViolations) = 1
    /\ Verdict("bad", "exclude_from_baseline")

\* The fields that are statistical outliers against the baseline
StatisticalOutliers(session, baseline) ==
    IF ~baseline.passed THEN {}
    ELSE {m \in DOMAIN baseline.map :
            /\ m \in {"avgHrv", "minHeartRate", "avgRespiratoryRate", "durationSeconds"}
            /\ HasValue(session, m)
            /\ baseline.map[m].mad # 0
            /\ Abs(session[m] - baseline.map[m].median) * 6745
                   > 35 * 1000 * baseline.map[m].mad}

OptionalFields ==
    {"minHeartRate", "avgHeartRate", "maxHeartRate", "avgHrv",
     "avgRespiratoryRate", "avgBedTempC", "avgRoomTempC"}

\* C18 as stated: without a hard violation, two or more outliers give
\* 'warning' / 'flag_for_review', one outlier or a missing optional field
\* gives 'warning' / 'include', anything else 'good' / 'include'.
C18_MissingOptionalWarns ==
    (pc = "checked" /\ ~OutsideHardLimit(run.session)) =>
        LET n == Cardinality(StatisticalOutliers(run.session, run.baseline))
            missing == \E f \in OptionalFields : ~HasValue(run.session, f)
        IN  IF n >= 2 THEN Verdict("warning", "flag_for_review")
            ELSE IF n = 1 \/ missing THEN Verdict("warning", "include")
            ELSE Verdict("good", "include")

\* C18: without a hard violation, two or more outliers give 'warning' /
\* 'flag_for_review', one outlier or a missing durationSeconds (the one
\* required field) gives 'warning' / 'include', anything else 'good' /
\* 'include'.
C18_DecisionPolicy ==
    (pc = "checked" /\ ~OutsideHardLimit(run.session)) =>
        LET n == Cardinality(StatisticalOutliers(run.session, run.baseline))
            missing == ~HasValue(run.session, "durationSeconds")
        IN  IF n >= 2 THEN Verdict("warning", "flag_for_review")
            ELSE IF n = 1 \/ missing THEN Verdict("warning", "include")
            ELSE Verdict("good", "include")

\* One outlier only, with optional fields missing
C18_Witness ==
    /\ pc = "checked"
    /\ ~OutsideHardLimit(run.session)
    /\ StatisticalOutliers(run.session, run.baseline) = {"avgHrv"}
    /\ ~HasValue(run.session, "minHeartRate")
    /\ Verdict("warning", "include")

\* The fields of the session whose value is outside its hard limit
ViolatingFields(session) ==
    {QualityChecks[k].field : k \in
        {j \in 1..Len(QualityChecks) :
            /\ HasValue(session, QualityChecks[j].field)
            /\ ~InRange(session[QualityChecks[j].field], QualityChecks[j].limitKey)}}

FlaggedInStore(session) ==
    /\ session.id \in DOMAIN sleepSessions
    /\ sleepSessions[session.id].dataQuality.hasOutliers
    /\ \A f \in ViolatingFields(session) :
          \E k \in 1..Len(sleepSessions[session.id].dataQuality.outlierFields) :
              sleepSessions[session.id].dataQuality.outlierFields[k] = f

\* C19: after a successful import every session written by it that has a
\* value outside a hard limit is in the store with hasOutliers = true and
\* the field among outlierFields, and the result has an 'outlier' warning.
C19_OutlierFlaggedOnEveryPath ==
    Succeeded =>
        \A k \in 1..Len(run.dedup.sessions) :
            ViolatingFields(run.dedup.sessions[k]) # {} =>
                /\ FlaggedInStore(run.dedup.sessions[k])
                /\ \E w \in WarningsOf(results[1]) : w.type = "outlier"

\* The local calendar day and the local hour of an instant
LocalDay(t, zone) == (t + zone) \div 48

LocalHour(t, zone) == ((t + zone) % 48) \div 2

\* C20: the date is the local calendar day of the start when the local
\* hour of the start is 6 or later, and the local day before otherwise.
C20_NightOfIsLocalDay ==
    pc = "dated" =>
        results[1] = IF LocalHour(run.ts, run.zone) >= 6
                     THEN LocalDay(run.ts, run.zone)
                     ELSE LocalDay(run.ts, run.zone) - 1

\* The content of the file carries a structural signature of the vendor
StructuralSignature(file, vendor) ==
    \/ vendor = "eight_sleep" /\ file.json \in {"eight", "dashboard"}
    \/ vendor = "oura" /\ (file.json = "oura" \/ (file.csv /\ file.header = "oura"))
    \/ vendor = "apple_health" /\ (file.json = "applePre" \/ file.xml = "apple")
    \/ vendor = "orangetheory" /\ file.csv /\ file.header = "splat"

NamedVendors == {"eight_sleep", "oura", "apple_health", "orangetheory"}

\* C21: confidence is 'high' only with a structural signature of the
\* suggested vendor in the content; a vendor suggested by the file name
\* alone comes with confidence 'low'.
C21_NameAloneIsLow ==
    pc = "detected" =>
        /\ results[1].confidence = "high"
              => StructuralSignature(run.file, results[1].suggestedVendor)
        /\ (/\ results[1].suggestedVendor \in NamedVendors
            /\ ~StructuralSignature(run.file, results[1].suggestedVendor))
              => results[1].confidence = "low"

ConstantSample(sample) == \A i, j \in 1..Len(sample) : sample[i] = sample[j]

\* C23: the MAD of a constant sample is 0, the robust z-score against a
\* MAD of 0 is 0 for every value, and no field is listed as an outlier
\* against it.
C23_ConstantSampleFlagsNothing ==
    (pc = "scored" /\ ConstantSample(run.sample)) =>
        /\ results[1].mad = 0
        /\ results[1].zScore = 0
        /\ results[1].outlierFields = <<>>

\* A constant sample and a value far from it
C23_Witness ==
    /\ pc = "scored"
    /\ Len(run.sample) = MaxSample
    /\ ConstantSample(run.sample)
    /\ run.value = 400
    /\ results[1].median = run.sample[1]
    /\ results[1].outlierFields = <<>>

Range(seq) == {seq[i] : i \in 1..Len(seq)}

\* The source names of the sessions merged into the one session returned:
\* the incoming sessions when there are two or more, and the stored one
\* when the result is an update of it
MergedInto(session) ==
    (IF Len(run.sessions) >= 2
     THEN {run.sessions[i].vendorData.source : i \in 1..Len(run.sessions)}
     ELSE {})
    \cup (IF getAll(sleepSessions) # <<>> /\ session.id = getAll(sleepSessions)[1].id
          THEN {getAll(sleepSessions)[1].vendorData.source} \cup
               {run.sessions[i].vendorData.source : i \in 1..Len(run.sessions)}
          ELSE {})

\* C24: the session deduplicateSessions returns for a date lists in
\* vendorData.mergedSources the source of every session merged into it.
C24_MergedSourcesComplete ==
    pc = "deduped" =>
        \A i \in 1..Len(results[1].sessions) :
            MergedInto(results[1].sessions[i])
                \subseteq Range(results[1].sessions[i].vendorData.mergedSources)

\* C25: every stored sleep session has no efficiency or one within [0, 100].
C25_StoredEfficiencyInRange ==
    \A i \in 1..Len(getAll(sleepSessions)) :
        LET efficiency == getAll(sleepSessions)[i].efficiency
        IN  \/ efficiency = Undefined
            \/ NumLess(-1, efficiency) /\ NumLess(efficiency, 101)

\* C26: a step of importFile leaves every stored session the user has
\* excluded in the store with manuallyExcluded = true.
C26_ImportKeepsExclusion ==
    [][ToggleExclusion
       \/ \A id \in DOMAIN sleepSessions :
             sleepSessions[id].dataQuality.manuallyExcluded
                => /\ id \in DOMAIN sleepSessions'
                   /\ sleepSessions'[id].dataQuality.manuallyExcluded]_vars

\* C27: every stored time series belongs to a stored sleep session.
C27_SeriesSessionStored ==
    \A id \in DOMAIN timeSeries :
        timeSeries[id].sessionId \in DOMAIN sleepSessions

\* The records a step writes to a table: those put under a new key and
\* those that replace a record
Written(table, tableAfter) ==
    {tableAfter[id] : id \in {k \in DOMAIN tableAfter :
                                 k \notin DOMAIN table \/ table[k] # tableAfter[k]}}

\* C28: every sleep session, workout, daily metric and time series a step
\* writes has the sourceId of a Source record that is already in the store.
C28_SourceWrittenFirst ==
    [][\A r \in Written(sleepSessions, sleepSessions')
              \cup Written(workoutSessions, workoutSessions')
              \cup Written(dailyMetrics, dailyMetrics')
              \cup Written(timeSeries, timeSeries') :
          r.sourceId \in DOMAIN sources]_vars

\* A store request failed after the sleep sessions of the import were written
C28_Witness ==
    /\ storeFailed
    /\ run.sourceId \in DOMAIN sources
    /\ \E id \in DOMAIN sleepSessions : sleepSessions[id].sourceId = run.sourceId
    /\ \A id \in DOMAIN workoutSessions : workoutSessions[id].sourceId # run.sourceId

\* The responses of the parse p, in the order they were posted
ResponsesOf(p) == SelectSeq(events, LAMBDA r : r.parse = p)

\* A returned call of processFile has posted one terminal response, its
\* last response; a running call has posted none
OneTerminalLast(p) ==
    LET responses == ResponsesOf(p)
        terminal == {i \in 1..Len(responses) :
                        responses[i].type \in {"complete", "error"}}
    IN  IF run.parses[p].at = "returned"
        THEN terminal = {Len(responses)}
        ELSE terminal = {}

C30_OneFieldPerColumn ==
    pc = "mapped" =>
        \A c1, c2 \in DOMAIN results[1] :
            c1 # c2 => results[1][c1] # results[1][c2]

====
